---- MODULE Spec2Model ----
(***************************************************************************)
(* Stock advisor: quality gates, composite scoring, position sizing and    *)
(* recommendation assembly.                                                *)
(*                                                                         *)
(* Number representation.  The program computes in IEEE doubles.  Here     *)
(*   - percentages entered by the user or read from the CSV (ROCE,         *)
(*     promoter holding) are integers in tenths of a point;                *)
(*   - working weights (rawWeight, cappedWeight) are integers in           *)
(*     thousandths of a percentage point, every multiplication or          *)
(*     division being rounded to the nearest thousandth;                   *)
(*   - final weights, totalWeight, cashAllocation and sector weights are   *)
(*     integers in tenths of a percentage point, which is what             *)
(*     Math.round(x * 10) / 10 produces;                                   *)
(*   - conviction is in hundredths (compositeScore * safety percent).      *)
(* Rounding to the nearest thousandth stands for the round-to-nearest of   *)
(* doubles: the final weights it yields are those the doubles yield; the   *)
(* number of sector passes can differ, because a sum that lands a          *)
(* thousandth above the cap is not reduced by a further scaling.           *)
(***************************************************************************)
EXTENDS Integers, Sequences, FiniteSets, TLC

VARIABLES
    pc,              \* position in the running call
    caller,          \* which entry point is running
    stocks,          \* generateRecommendation / scoreAllStocks input (raw records)
    scoringResult,   \* result of scoreAllStocks
    scoredStocks,    \* argument of calculatePortfolioWeights
    eligibleStocks,  \* working array of calculatePortfolioWeights
    iterations,      \* sector loop counter
    includedStocks,  \* survivors of minimum-weight pruning
    portfolioResult, \* value returned by calculatePortfolioWeights
    recommendation,  \* value returned by generateRecommendation
    stock,           \* argument of checkQualityGates (gate specification)
    gateResult,      \* value returned by checkQualityGates(stock)
    lowered,         \* the same stock with a lower ROCE
    loweredResult,   \* value returned by checkQualityGates(lowered)
    condition,       \* market condition a stock is scored under
    dynamicWeights,  \* value returned by getDynamicWeights(condition)
    scores,          \* the five layer results of calculateStockScore
    current,         \* first argument of compareRecommendations
    previous,        \* second argument of compareRecommendations
    comparison,      \* value returned by compareRecommendations
    validation,      \* value returned by validateWeights
    topPicks,        \* picks still waiting for their AI check
    enhancedPicks,   \* picks after their AI check
    aiFailed,        \* codes of the picks whose checkAI call rejected
    savedFile,       \* content of db/recommendations.json
    historyFile,     \* content of db/stock_history.json
    thisWeek,        \* week of the wall clock
    clock,           \* wall clock, one tick per save
    resaves,         \* saves so far for a week that had been saved before
    savedByWeek      \* per weekId the record most recently saved (history)

marketVars == <<condition, dynamicWeights>>

layerVars == <<scores>>

compareVars == <<current, previous, comparison>>

validateVars == <<validation>>

aiVars == <<topPicks, enhancedPicks, aiFailed>>

storeVars == <<savedFile, historyFile, thisWeek, clock, resaves, savedByWeek>>

auxVars == <<marketVars, layerVars, compareVars, validateVars, aiVars, storeVars>>

vars == <<pc, caller, stocks, scoringResult, scoredStocks, eligibleStocks,
          iterations, includedStocks, portfolioResult, recommendation,
          stock, gateResult, lowered, loweredResult, auxVars>>

sizingVars == <<scoredStocks, eligibleStocks, iterations, includedStocks,
                portfolioResult>>

gateVars == <<stock, gateResult, lowered, loweredResult>>

-----------------------------------------------------------------------------
(* Bounds of the model *)

\* longest scoredStocks list handed to calculatePortfolioWeights directly
MaxStocks == 6

\* largest universe handed to generateRecommendation
MaxUniverse == 4

-----------------------------------------------------------------------------
(* Generic helpers *)

Null == [null |-> TRUE]

Max(a, b) == IF a >= b THEN a ELSE b

Min(a, b) == IF a <= b THEN a ELSE b

Abs(a) == IF a >= 0 THEN a ELSE 0 - a

\* a / b rounded to the nearest integer, halves up (a >= 0, b > 0)
RoundDiv(a, b) == (2 * a + b) \div (2 * b)

RECURSIVE SumField(_, _)
SumField(s, f) == IF s = <<>> THEN 0 ELSE Head(s)[f] + SumField(Tail(s), f)

RECURSIVE FilterSeq(_, _)
FilterSeq(s, keep) ==
    IF s = <<>> THEN <<>>
    ELSE IF Head(s) \in keep THEN <<Head(s)>> \o FilterSeq(Tail(s), keep)
    ELSE FilterSeq(Tail(s), keep)

Range(s) == {s[i] : i \in DOMAIN s}

TakeFirst(s, n) == SubSeq(s, 1, Min(n, Len(s)))

\* variant: an element is placed before the elements it compares equal to
RECURSIVE InsertDescUnstable(_, _, _)
InsertDescUnstable(s, x, f) ==
    IF s = <<>> THEN <<x>>
    ELSE IF Head(s)[f] > x[f] THEN <<Head(s)>> \o InsertDescUnstable(Tail(s), x, f)
    ELSE <<x>> \o s

\* Array.prototype.sort((a, b) => b[f] - a[f]): stable, descending by field f
RECURSIVE InsertDesc(_, _, _)
InsertDesc(s, x, f) ==
    IF s = <<>> THEN <<x>>
    ELSE IF Head(s)[f] >= x[f] THEN <<Head(s)>> \o InsertDesc(Tail(s), x, f)
    ELSE <<x>> \o s

RECURSIVE SortDescBy(_, _)
SortDescBy(s, f) ==
    IF s = <<>> THEN <<>>
    ELSE InsertDesc(SortDescBy(SubSeq(s, 1, Len(s) - 1), f), s[Len(s)], f)

\* {...r, ...ext}: object spread, fields of ext override or extend r
Extend(r, ext) ==
    [f \in (DOMAIN r) \cup (DOMAIN ext) |-> IF f \in DOMAIN ext THEN ext[f] ELSE r[f]]

-----------------------------------------------------------------------------
(* Sector configuration (sectorConfig.js), restricted to the industries    *)
(* that occur in the model; "Textiles" stands for an industry that is in   *)
(* none of the tables.                                                     *)

Industries ==
    {"Pharmaceuticals", "Software Products", "Civil Construction",
     "Residential, Commercial Projects",
     "Financial Institution", "Investment Company", "Textiles"}

roceThresholds ==
    [i \in {"Pharmaceuticals", "Software Products", "Civil Construction",
            "Residential, Commercial Projects",
            "Financial Institution", "Investment Company"} |->
        CASE i = "Pharmaceuticals" -> 15
          [] i = "Software Products" -> 20
          [] i = "Civil Construction" -> 12
          [] i = "Residential, Commercial Projects" -> 12
          [] i = "Financial Institution" -> 8
          [] i = "Investment Company" -> 6]

roceThresholdDefault == 15

getROCEThreshold(industry) ==
    IF industry \in DOMAIN roceThresholds THEN roceThresholds[industry]
    ELSE roceThresholdDefault

cyclicalityHigh == {"Civil Construction", "Residential, Commercial Projects"}

cyclicalityLow == {"Pharmaceuticals", "Software Products"}

getCyclicality(industry) ==
    IF industry \in cyclicalityHigh THEN "high"
    ELSE IF industry \in cyclicalityLow THEN "low"
    ELSE "medium"

getSectorGroup(industry) ==
    CASE industry \in {"Financial Institution", "Investment Company"} -> "Financials"
      [] industry = "Software Products" -> "Technology"
      [] industry = "Pharmaceuticals" -> "Healthcare"
      [] industry \in {"Civil Construction", "Residential, Commercial Projects"}
            -> "Infrastructure"
      [] OTHER -> "Other"

\* macroSensitivity.interestRateSensitive
isRateSensitive(industry) == industry \in {"Residential, Commercial Projects"}

\* macroSensitivity.currencyBeneficiaries
isCurrencyBeneficiary(industry) == industry \in {"Software Products", "Pharmaceuticals"}

-----------------------------------------------------------------------------
(* Quality gates (qualityGates.js).  ROCE, promoter holding and promoter   *)
(* change are in tenths of a percentage point; market capitalisation in    *)
(* crores, volume in shares.                                               *)

\* stock.Industry || 'default'
IndustryOrDefault(s) == IF s.Industry = "" THEN "default" ELSE s.Industry

\* Sector thresholds t for which the double t * 0.8 lies above the decimal
\* product: 6 * 0.8 is 4.800000000000001 and 12 * 0.8 is 9.600000000000001,
\* while parseFloat("4.8") and parseFloat("9.6") are the doubles nearest to
\* 4.8 and 9.6.  For 8, 15 and 20 the product is the decimal value.
ProductRoundsUp == {6, 12}

\* value >= roceThreshold * 0.8, value in tenths with one decimal digit
MeetsRelaxedThreshold(value, roceThreshold) ==
    IF roceThreshold \in ProductRoundsUp THEN value > 8 * roceThreshold
    ELSE value >= 8 * roceThreshold

\* variant: the third check compares the wrong way round
ProfitabilityChecksDeclining(s) ==
    LET roceThreshold == getROCEThreshold(IndustryOrDefault(s))
    IN << s.ROCE >= 10 * roceThreshold,
          MeetsRelaxedThreshold(s.AvgROCE3Y, roceThreshold),
          s.AvgROCE3Y >= s.ROCE >>

\* profitabilityChecks[*].passed
ProfitabilityChecks(s) ==
    LET roceThreshold == getROCEThreshold(IndustryOrDefault(s))
    IN << s.ROCE >= 10 * roceThreshold,
          MeetsRelaxedThreshold(s.AvgROCE3Y, roceThreshold),
          s.ROCE >= s.AvgROCE3Y >>

\* profitabilityChecks.filter(c => c.passed).length
PassedCount(checks) == Cardinality({i \in DOMAIN checks : checks[i]})

\* industry.includes('NBFC') || includes('Financial') || includes('Stockbroking')
IsFinancial(industry) == industry \in {"Financial Institution"}

\* failures are kept by their category, the text before the first ':'
GateFailures(s) ==
    (IF PassedCount(ProfitabilityChecks(s)) >= 2 THEN <<>> ELSE <<"Profitability">>)
    \o (IF s.PromoterHolding > 0 /\ s.PromoterHolding < 260
        THEN <<"Low promoter holding">> ELSE <<>>)
    \o (IF s.MarketCap < 300 THEN <<"Market cap too low">> ELSE <<>>)

GateWarnings(s) ==
    (IF s.PromoterChange < -20 THEN <<"Promoter reducing stake">> ELSE <<>>)
    \o (IF s.AvgVolume < 5000 THEN <<"Low liquidity">> ELSE <<>>)
    \o (IF (IF s.BSchklist >= 5 THEN 1 ELSE 0) + (IF s.Canslim >= 1 THEN 1 ELSE 0)
           + (IF s.MasterScore >= 6 THEN 1 ELSE 0) < 1
        THEN <<"Low quality scores">> ELSE <<>>)
    \o (IF s.CashFlow < 0 /\ s.SalesGrowth < 20
           /\ getCyclicality(IndustryOrDefault(s)) # "high"
        THEN <<"Negative cash flow without high growth">> ELSE <<>>)
    \o (IF ~IsFinancial(IndustryOrDefault(s)) /\ s.DebtGeni < 1
        THEN <<"Debt concerns">> ELSE <<>>)

checkQualityGates(s) ==
    [passed |-> Len(GateFailures(s)) = 0,
     failures |-> GateFailures(s),
     warnings |-> GateWarnings(s),
     profitabilityDetails |-> ProfitabilityChecks(s)]

-----------------------------------------------------------------------------
(* The five scoring layers.  Units of the stock record: ROCE, 3-year       *)
(* average ROCE, promoter holding and promoter change in tenths of a       *)
(* point; opmargin, npmargin, gordanIV, discount1 and discount2 in         *)
(* hundredths (the CSV holds fractions); CashFlow, epsgeni and rocev2 in   *)
(* tenths; growth rates, returns, PE, prices and volumes in whole units.   *)
(* A ratio test a / b >= c is written as the product test a >= c * b for   *)
(* the positive b the code has established.                                *)

\* Math.max(0, Math.min(100, score))
Clamp(score) == Max(0, Min(100, score))

\* stock[field] || fallback
OrElse(value, fallback) == IF value = 0 THEN fallback ELSE value

-----------------------------------------------------------------------------
(* Risk score (riskScore.js); the layer score is in hundredths of a point  *)

calculateFundamentalRisk(s) ==
    Clamp(100
          - (IF s.ROCE < 50 THEN 25 ELSE IF s.ROCE < 100 THEN 10 ELSE 0)
          - (IF s.OpMargin < 5 THEN 20 ELSE IF s.OpMargin < 10 THEN 10 ELSE 0)
          + (IF s.DebtGeni >= 4 THEN 5 ELSE IF s.DebtGeni <= 1 THEN -15 ELSE 0)
          - (IF s.ProfitGrowth < -20 \/ s.ProfitGrowth3Y < -10 THEN 15 ELSE 0))

\* Math.abs(price - dma) / dma * 100 > limit; 0 / 0 is NaN and compares false
DeviationAbove(price, dma, limit) ==
    dma > 0 /\ 100 * Abs(price - dma) > limit * dma

calculateVolatilityRisk(s) ==
    LET dma200 == OrElse(s.DMA200, s.Price)
    IN Clamp(100
             - (IF DeviationAbove(s.Price, dma200, 30) THEN 20
                ELSE IF DeviationAbove(s.Price, dma200, 20) THEN 10 ELSE 0)
             - (IF s.Return3m < -30 THEN 25
                ELSE IF s.Return3m < -20 THEN 15
                ELSE IF s.Return3m < -10 THEN 5 ELSE 0)
             - (IF Abs(s.Return1w) + Abs(s.Return1m - s.Return1w) > 30 THEN 10 ELSE 0))

\* turnoverRatio = avgVolume * price / 10000000 / marketCap * 100 < tenths / 10;
\* with marketCap 0 the ratio is Infinity or NaN and compares false
TurnoverBelow(s, tenths) ==
    s.MarketCap > 0 /\ s.AvgVolume * s.Price < tenths * 10000 * s.MarketCap

calculateLiquidityRisk(s) ==
    Clamp(100
          - (IF s.MarketCap < 500 THEN 25
             ELSE IF s.MarketCap < 1000 THEN 15
             ELSE IF s.MarketCap < 2000 THEN 5 ELSE 0)
          - (IF TurnoverBelow(s, 1) THEN 20 ELSE IF TurnoverBelow(s, 3) THEN 10 ELSE 0)
          - (IF s.AvgVolume > 0 /\ s.Volume > 0 /\ 10 * s.Volume < 3 * s.AvgVolume
             THEN 10 ELSE 0)
          - (IF 1000 - s.PromoterHolding < 200 THEN 15 ELSE 0))

calculateGovernanceRisk(s) ==
    Clamp(100
          + (IF s.PromoterChange < -50 THEN -30
             ELSE IF s.PromoterChange < -20 THEN -15
             ELSE IF s.PromoterChange > 20 THEN 10 ELSE 0)
          - (IF s.PubHoldingDecr > 0 THEN 10 ELSE 0)
          + (IF s.BSchklist >= 8 THEN 5 ELSE IF s.BSchklist <= 4 THEN -10 ELSE 0))

calculateConcentrationRisk(s) ==
    Clamp(100
          - (IF getCyclicality(s.Industry) = "high" THEN 15
             ELSE IF getCyclicality(s.Industry) = "medium" THEN 5 ELSE 0)
          - (IF s.OpMargin < 5 THEN 15 ELSE 0)
          - (IF Abs(s.YoYQSales) > 50 \/ Abs(s.YoYQProfit) > 100 THEN 10 ELSE 0))

RiskComponents(s) ==
    [fundamentalRisk |-> calculateFundamentalRisk(s),
     volatilityRisk |-> calculateVolatilityRisk(s),
     liquidityRisk |-> calculateLiquidityRisk(s),
     governanceRisk |-> calculateGovernanceRisk(s),
     concentrationRisk |-> calculateConcentrationRisk(s)]

\* Math.min(...Object.values(components).map(c => c.score))
WorstComponent(c) ==
    Min(c.fundamentalRisk, Min(c.volatilityRisk, Min(c.liquidityRisk,
        Min(c.governanceRisk, c.concentrationRisk))))

\* the weighted sum of the component scores, in hundredths
LinearRiskScore(c) ==
    35 * c.fundamentalRisk + 25 * c.volatilityRisk + 15 * c.liquidityRisk
    + 15 * c.governanceRisk + 10 * c.concentrationRisk

\* (30 - worstComponent) * 0.5 below 30, in hundredths
TailRiskPenalty(c) ==
    IF WorstComponent(c) < 30 THEN (30 - WorstComponent(c)) * 50 ELSE 0

\* variant: the worst component is ignored
calculateRiskScoreLinear(s) ==
    [score |-> Max(0, Min(100 * 100, LinearRiskScore(RiskComponents(s)))),
     components |-> RiskComponents(s),
     tailRiskPenalty |-> 0]

calculateRiskScore(s) ==
    LET components == RiskComponents(s)
    IN [score |-> Max(0, Min(100 * 100,
                             LinearRiskScore(components) - TailRiskPenalty(components))),
        components |-> components,
        tailRiskPenalty |-> TailRiskPenalty(components)]

-----------------------------------------------------------------------------
(* Fundamental score (fundamentalScore.js)                                 *)

calculateEarningsPower(s) ==
    LET roceThreshold == getROCEThreshold(IF s.Industry = "" THEN "default" ELSE s.Industry)
        roce == s.ROCE
        roce3Y == OrElse(s.AvgROCE3Y, roce)
    IN Clamp(50
             + (IF roce >= 20 * roceThreshold THEN 30
                ELSE IF roce >= 15 * roceThreshold THEN 20
                ELSE IF roce >= 10 * roceThreshold THEN 10
                ELSE IF roce >= 8 * roceThreshold THEN 0 ELSE -15)
             \* roceConsistency = roce3Y > 0 ? min / max : 0
             + (IF roce3Y > 0 /\ 10 * Min(roce, roce3Y) >= 8 * Max(roce, roce3Y) THEN 10
                ELSE IF roce3Y <= 0 \/ 2 * Min(roce, roce3Y) < Max(roce, roce3Y) THEN -10
                ELSE 0)
             + (IF 10 * roce > 11 * roce3Y THEN 10
                ELSE IF 10 * roce < 8 * roce3Y THEN -10 ELSE 0)
             + (IF s.OpMargin >= 20 THEN 10
                ELSE IF s.OpMargin >= 12 THEN 5
                ELSE IF s.OpMargin < 5 THEN -10 ELSE 0))

calculateGrowthQuality(s) ==
    Clamp(50
          + (IF s.ProfitGrowth3Y >= 30 THEN 20
             ELSE IF s.ProfitGrowth3Y >= 15 THEN 10
             ELSE IF s.ProfitGrowth3Y < 0 THEN -15 ELSE 0)
          \* leverageRatio = profitGrowth3Y / salesGrowth3Y
          + (IF s.SalesGrowth3Y > 0
             THEN IF 2 * s.ProfitGrowth3Y >= 3 * s.SalesGrowth3Y THEN 15
                  ELSE IF 10 * s.ProfitGrowth3Y < 7 * s.SalesGrowth3Y THEN -10 ELSE 0
             ELSE 0)
          + (IF s.ProfitGrowth > s.ProfitGrowth3Y + 10 THEN 10
             ELSE IF s.ProfitGrowth < s.ProfitGrowth3Y - 20 THEN -10 ELSE 0)
          + (IF s.YoYQProfit >= 20 THEN 10
             ELSE IF s.YoYQProfit < -10 THEN -10 ELSE 0))

calculateCashConversion(s) ==
    Clamp(50
          + (IF s.CashFlow >= 10 THEN 20
             ELSE IF s.CashFlow >= 5 THEN 10
             ELSE IF s.CashFlow >= 0 THEN 0 ELSE -15)
          \* conversionRatio = npMargin / opMargin
          + (IF s.OpMargin > 0
             THEN IF 10 * s.NpMargin >= 7 * s.OpMargin THEN 10
                  ELSE IF 10 * s.NpMargin < 4 * s.OpMargin THEN -10 ELSE 0
             ELSE 0)
          + (IF s.EpsGeni >= 25 THEN 15
             ELSE IF s.EpsGeni >= 15 THEN 5
             ELSE IF s.EpsGeni < 5 THEN -10 ELSE 0))

calculateCompetitiveMoat(s) ==
    Clamp(50
          + (IF s.ROCE >= 250 /\ s.AvgROCE3Y >= 250 THEN 25
             ELSE IF s.ROCE >= 200 /\ s.AvgROCE3Y >= 180 THEN 15 ELSE 0)
          + (IF s.OpMargin >= 15 THEN 10 ELSE 0)
          + (IF s.RoceV2 >= 15 THEN 10 ELSE 0)
          + (IF s.MarketCap >= 20000 THEN 5 ELSE 0))

calculateCapitalAllocation(s) ==
    Clamp(50
          + (IF s.ROCE >= 250 THEN 15 ELSE IF s.ROCE >= 150 THEN 5 ELSE 0)
          + (IF s.DebtReduce > 0 \/ s.DebtGeni >= 4 THEN 15
             ELSE IF s.DebtGeni <= 1 THEN -10 ELSE 0)
          + (IF s.EquityReduce > 0 THEN 10 ELSE 0)
          + (IF s.MasterScore >= 10 THEN 10
             ELSE IF s.MasterScore >= 7 THEN 5 ELSE 0))

\* getGrade(score), the score in hundredths of a point
getGrade(score) ==
    IF score >= 85 * 100 THEN "A+"
    ELSE IF score >= 75 * 100 THEN "A"
    ELSE IF score >= 65 * 100 THEN "B+"
    ELSE IF score >= 55 * 100 THEN "B"
    ELSE IF score >= 45 * 100 THEN "C+"
    ELSE IF score >= 35 * 100 THEN "C"
    ELSE "D"

\* score: Math.round(totalScore), grade: getGrade(totalScore)
calculateFundamentalScore(s) ==
    LET components == [earningsPower |-> calculateEarningsPower(s),
                       growthQuality |-> calculateGrowthQuality(s),
                       cashConversion |-> calculateCashConversion(s),
                       competitiveMoat |-> calculateCompetitiveMoat(s),
                       capitalAllocation |-> calculateCapitalAllocation(s)]
        totalScore == 30 * components.earningsPower + 25 * components.growthQuality
                      + 20 * components.cashConversion
                      + 15 * components.competitiveMoat
                      + 10 * components.capitalAllocation
    IN [score |-> RoundDiv(totalScore, 100),
        components |-> components,
        grade |-> getGrade(totalScore)]

-----------------------------------------------------------------------------
(* Valuation score (valuationScore.js)                                     *)

calculateRelativeValue(s) ==
    LET pe == s.PE
        industryPE == OrElse(s.IndustryPE, pe)
        roce == OrElse(s.ROCE, 150)
        growthForPEG == Min(s.ProfitGrowth3Y, 40)
    IN Clamp(50
             \* peRatio = pe / industryPE
             + (IF pe > 0 /\ industryPE > 0
                THEN IF 10 * pe <= 6 * industryPE THEN 25
                     ELSE IF 10 * pe <= 8 * industryPE THEN 15
                     ELSE IF pe <= industryPE THEN 5
                     ELSE IF 10 * pe > 13 * industryPE THEN -15 ELSE 0
                ELSE 0)
             \* qualityAdjustedPE = pe / (roce / 15)
             + (IF pe > 0 /\ roce > 0
                THEN IF 10 * pe < roce THEN 10
                     ELSE IF 10 * pe > 2 * roce THEN -10 ELSE 0
                ELSE 0)
             \* peg = pe / growthForPEG
             + (IF pe > 0 /\ s.ProfitGrowth3Y > 5
                THEN IF 10 * pe <= 8 * growthForPEG THEN 15
                     ELSE IF 10 * pe <= 12 * growthForPEG THEN 5
                     ELSE IF pe > 2 * growthForPEG THEN -10 ELSE 0
                ELSE 0))

calculateIntrinsicValueGap(s) ==
    Clamp(50
          + (IF s.GordanIV >= 30 THEN 20
             ELSE IF s.GordanIV >= 15 THEN 10
             ELSE IF s.GordanIV < 0 THEN -10 ELSE 0)
          \* avgDiscount = (discount1 + discount2) / 2
          + (IF s.Discount1 + s.Discount2 >= 80 THEN 20
             ELSE IF s.Discount1 + s.Discount2 >= 40 THEN 10
             ELSE IF s.Discount1 + s.Discount2 < 0 THEN -15 ELSE 0)
          + (IF s.GeniScore1 >= 7 THEN 10
             ELSE IF s.GeniScore1 < 3 THEN -10 ELSE 0))

TrapDeclining(s) == s.ProfitGrowth < 0 /\ s.ProfitGrowth3Y < 0 /\ s.SalesGrowth < 0

TrapMarginCompression(s) == s.OpMargin < 5 /\ s.ProfitGrowth < s.SalesGrowth

TrapCashFlow(s) == s.CashFlow < 0 /\ s.ProfitGrowth3Y < 10

TrapQuarterly(s) == s.YoYQProfit < -20 /\ s.YoYQSales < -10

calculateValueTrapFilter(s) ==
    Clamp(70
          - (IF TrapDeclining(s) THEN 30 ELSE 0)
          - (IF TrapMarginCompression(s) THEN 20 ELSE 0)
          - (IF TrapCashFlow(s) THEN 15 ELSE 0)
          - (IF TrapQuarterly(s) THEN 15 ELSE 0)
          - (IF s.Accumulation = 0 /\ s.VolumeIncr = 0 THEN 10 ELSE 0)
          \* trapIndicators === 0 && profitGrowth3Y > 10
          + (IF ~TrapDeclining(s) /\ ~TrapMarginCompression(s) /\ ~TrapCashFlow(s)
                /\ ~TrapQuarterly(s) /\ s.ProfitGrowth3Y > 10
             THEN 20 ELSE 0))

\* the sum of the catalyst bonuses on the conservative start of 40
CatalystPoints(s) ==
    40
    + (IF s.DebtReduce > 0 \/ s.DebtGeni >= 4 THEN 15 ELSE 0)
    + (IF s.ProfitGrowth > s.ProfitGrowth3Y + 15 THEN 15 ELSE 0)
    + (IF s.CapacityExpansion > 0 THEN 15 ELSE 0)
    + (IF s.ProfitGrowth3Y < 10 /\ s.YoYQProfit > 20 THEN 15 ELSE 0)
    + (IF s.Accumulation > 0 \/ s.RsiIncr > 0 THEN 10 ELSE 0)
    + (IF s.Garp > 0 THEN 10 ELSE 0)

\* variant: the score is returned as summed
calculateCatalystScoreUnclamped(s) == CatalystPoints(s)

calculateCatalystScore(s) == Clamp(CatalystPoints(s))

calculateValuationScore(s) ==
    LET components == [relativeValue |-> calculateRelativeValue(s),
                       intrinsicValueGap |-> calculateIntrinsicValueGap(s),
                       valueTrapFilter |-> calculateValueTrapFilter(s),
                       catalystScore |-> calculateCatalystScore(s)]
    IN [score |-> RoundDiv(35 * components.relativeValue
                           + 30 * components.intrinsicValueGap
                           + 20 * components.valueTrapFilter
                           + 15 * components.catalystScore, 100),
        components |-> components]

-----------------------------------------------------------------------------
(* Momentum score (momentumScore.js)                                       *)

calculateTrendQuality(s) ==
    LET price == s.Price
        dma50 == OrElse(s.DMA50, price)
        dma200 == OrElse(s.DMA200, price)
        dma50Rising == dma50 > OrElse(s.DMA50Prev, dma50)
        dma200Rising == dma200 > OrElse(s.DMA200Prev, dma200)
    IN Clamp(50
             + (IF s.Return3m > 0 /\ s.ProfitGrowth > 0 THEN 15
                ELSE IF s.Return3m > 0 /\ s.ProfitGrowth < -10 THEN -15
                ELSE IF s.Return3m < -15 /\ s.ProfitGrowth > 10 THEN 5 ELSE 0)
             + (IF price > dma50 /\ dma50 > dma200
                THEN 15 + (IF dma50Rising /\ dma200Rising THEN 5 ELSE 0)
                ELSE IF price < dma50 /\ dma50 < dma200
                THEN -15 - (IF ~dma50Rising /\ ~dma200Rising THEN 5 ELSE 0)
                ELSE 0)
             \* trendStrength = (price - dma200) / dma200 * 100
             + (IF dma200 > 0
                THEN IF 100 * (price - dma200) > 30 * dma200 THEN -10
                     ELSE IF 100 * (price - dma200) > 10 * dma200 THEN 5
                     ELSE IF price - dma200 > 0 THEN 10 ELSE 0
                ELSE 0)
             + (IF s.MomentumScore >= 4 THEN 10
                ELSE IF s.MomentumScore <= 1 THEN -5 ELSE 0))

\* Math.abs(price - dma) / dma < 0.05; Infinity and NaN compare false
NearDma(price, dma) == dma > 0 /\ 100 * Abs(price - dma) < 5 * dma

calculatePullbackQuality(s) ==
    LET price == s.Price
        dma50 == OrElse(s.DMA50, price)
        dma200 == OrElse(s.DMA200, price)
        fundamentalsIntact == s.ProfitGrowth3Y > 5 /\ s.YoYQProfit > -10
        pullbackFromRecent == 0 - s.Return3m
    IN Clamp(50
             + (IF fundamentalsIntact
                THEN IF pullbackFromRecent >= 10 /\ pullbackFromRecent <= 25
                        /\ price > dma200 THEN 25
                     ELSE IF pullbackFromRecent >= 5 /\ pullbackFromRecent <= 15
                             /\ price > dma50 THEN 15 ELSE 0
                ELSE 0)
             + (IF NearDma(price, dma50) /\ price > dma200 THEN 10 ELSE 0)
             + (IF NearDma(price, dma200) /\ fundamentalsIntact THEN 15 ELSE 0)
             + (IF s.Return3m < -10 /\ s.Return1w > 0 THEN 10 ELSE 0)
             - (IF pullbackFromRecent > 30 \/ 100 * price < 85 * dma200 THEN 20 ELSE 0)
             + (IF s.RsiIncr > 0 /\ s.Return3m < 0 THEN 10 ELSE 0))

calculateVolumeAnalysis(s) ==
    LET volume == s.Volume
        volume1m == s.AvgVolume
    IN Clamp(50
             \* volumeRatio = volume / volume1m
             + (IF volume1m > 0
                THEN IF 2 * volume > 3 * volume1m /\ s.Return1w > 0 THEN 20
                     ELSE IF 2 * volume > 3 * volume1m /\ s.Return1w < 0 THEN -15
                     ELSE IF 2 * volume < volume1m THEN -5 ELSE 0
                ELSE 0)
             + (IF s.VolumeIncr > 0 THEN 15 ELSE 0)
             + (IF s.Accumulation > 0 THEN 15 ELSE 0)
             + (IF s.Return3m < -10 /\ 10 * volume < 7 * volume1m THEN 10 ELSE 0))

calculateRegimeFilter(s) ==
    LET relativeStrength == s.Return3m + 5
    IN Clamp(50
             + (IF relativeStrength > 10 THEN 15
                ELSE IF relativeStrength < -10 THEN -10 ELSE 0)
             + (IF s.PE > 0 /\ s.IndustryPE > 0
                THEN (IF s.IndustryPE > 30 /\ 10 * s.PE < 7 * s.IndustryPE THEN 10 ELSE 0)
                     - (IF s.IndustryPE < 15 /\ s.PE < 10 THEN 5 ELSE 0)
                ELSE 0)
             + (IF s.CyclicalTriggers > 0 THEN 15 ELSE 0))

calculateMomentumScore(s) ==
    LET components == [trendQuality |-> calculateTrendQuality(s),
                       pullbackQuality |-> calculatePullbackQuality(s),
                       volumeAnalysis |-> calculateVolumeAnalysis(s),
                       regimeFilter |-> calculateRegimeFilter(s)]
    IN [score |-> RoundDiv(30 * components.trendQuality
                           + 30 * components.pullbackQuality
                           + 25 * components.volumeAnalysis
                           + 15 * components.regimeFilter, 100),
        components |-> components]

-----------------------------------------------------------------------------
(* External score (externalScore.js)                                       *)

\* reduce((a, b) => a + b, 0) over the 3-month returns of a list of stocks
SumReturn3m(list) == SumField(list, "Return3m")

calculateSectorMomentum(s, allStocks) ==
    LET sectorGroup == getSectorGroup(s.Industry)
        InSector(x) == getSectorGroup(x.Industry) = sectorGroup
        sectorStocks == SelectSeq(allStocks, InSector)
        n == Len(sectorStocks)
        total == SumReturn3m(sectorStocks)
    IN Clamp(50
             \* avgSectorReturn = total / n
             + (IF n > 1
                THEN (IF total > 5 * n THEN 15
                      ELSE IF total < -10 * n THEN -15 ELSE 0)
                     + (IF n * s.Return3m > total + 5 * n THEN 10
                        ELSE IF n * s.Return3m < total - 10 * n THEN -10 ELSE 0)
                ELSE 0)
             + (IF s.IndustryPE > 35 THEN -5
                ELSE IF s.IndustryPE < 15 THEN 5 ELSE 0))

\* peerPEs.sort((a, b) => a - b)[Math.floor(peerPEs.length / 2)]
MedianPE(peerPEs) ==
    LET k == Len(peerPEs) \div 2
        i == CHOOSE i \in 1..Len(peerPEs) :
                /\ Cardinality({j \in 1..Len(peerPEs) : peerPEs[j].PE < peerPEs[i].PE}) <= k
                /\ Cardinality({j \in 1..Len(peerPEs) : peerPEs[j].PE <= peerPEs[i].PE}) > k
    IN peerPEs[i].PE

calculatePeerPerformance(s, allStocks) ==
    LET IsPeer(x) == x.Industry = s.Industry /\ x.Name # s.Name
        peers == SelectSeq(allStocks, IsPeer)
        n == Len(peers)
        total == SumReturn3m(peers)
        HasPE(x) == x.PE > 0
        peerPEs == SelectSeq(peers, HasPE)
    IN Clamp(50
             + (IF n > 0
                THEN (IF total > 5 * n THEN 10 ELSE 0)
                     + (IF n * s.Return3m > total + 10 * n THEN 15
                        ELSE IF n * s.Return3m < total - 10 * n THEN -10 ELSE 0)
                     + (IF Len(peerPEs) > 0 /\ s.PE > 0
                        THEN IF 10 * s.PE < 7 * MedianPE(peerPEs) THEN 10
                             ELSE IF 10 * s.PE > 13 * MedianPE(peerPEs) THEN -5 ELSE 0
                        ELSE 0)
                ELSE 0))

calculateMacroSensitivity(s) ==
    Clamp(50
          + (IF isRateSensitive(s.Industry) THEN 5 ELSE 0)
          + (IF isCurrencyBeneficiary(s.Industry) THEN 10 ELSE 0)
          + (IF getCyclicality(s.Industry) = "high" THEN -10
             ELSE IF getCyclicality(s.Industry) = "low" THEN 10 ELSE 0)
          + (IF s.CyclicalTriggers > 0 THEN 15 ELSE 0))

calculateExternalScore(s, allStocks) ==
    LET components == [sectorMomentum |-> calculateSectorMomentum(s, allStocks),
                       peerPerformance |-> calculatePeerPerformance(s, allStocks),
                       macroSensitivity |-> calculateMacroSensitivity(s)]
    IN [score |-> RoundDiv(40 * components.sectorMomentum
                           + 30 * components.peerPerformance
                           + 30 * components.macroSensitivity, 100),
        components |-> components]

-----------------------------------------------------------------------------
(* Composite scoring (scoring/index.js).  The five layer scorers are pure  *)
(* functions of some sixty fields of the stock record; a stock record of   *)
(* the model carries their results in its field "layers".  Weights are in  *)
(* percent, the unrounded composite in hundredths.                         *)

RECURSIVE SumReturns(_)
SumReturns(s) == IF s = <<>> THEN 0 ELSE Head(s).Return3m + SumReturns(Tail(s))

\* variant: the positive ratio is compared with >= and <=
detectMarketConditionInclusive(allStocks) ==
    LET n == Len(allStocks)
        positiveCount == Cardinality({i \in DOMAIN allStocks : allStocks[i].Return3m > 0})
    IN IF n = 0 THEN "NEUTRAL"
       ELSE IF SumReturns(allStocks) > 10 * n /\ 10 * positiveCount >= 7 * n THEN "BULLISH"
       ELSE IF SumReturns(allStocks) < (-10) * n /\ 10 * positiveCount <= 3 * n THEN "BEARISH"
       ELSE "NEUTRAL"

\* returns are whole percentages: avgReturn > 10 is sum > 10 * n, and
\* positiveRatio > 0.7 is 10 * positiveCount > 7 * n
detectMarketCondition(allStocks) ==
    LET n == Len(allStocks)
        positiveCount == Cardinality({i \in DOMAIN allStocks : allStocks[i].Return3m > 0})
    IN IF n = 0 THEN "NEUTRAL"
       ELSE IF SumReturns(allStocks) > 10 * n /\ 10 * positiveCount > 7 * n THEN "BULLISH"
       ELSE IF SumReturns(allStocks) < (-10) * n /\ 10 * positiveCount < 3 * n THEN "BEARISH"
       ELSE "NEUTRAL"

\* variant: the BULLISH table gives momentum the weight the other tables
\* take from safety as well
getDynamicWeightsSkewed(marketCondition) ==
    CASE marketCondition = "BEARISH" ->
            [safety |-> 40, fundamental |-> 25, valuation |-> 25, momentum |-> 5, external |-> 5]
      [] marketCondition = "BULLISH" ->
            [safety |-> 20, fundamental |-> 30, valuation |-> 20, momentum |-> 30, external |-> 10]
      [] OTHER ->
            [safety |-> 30, fundamental |-> 25, valuation |-> 20, momentum |-> 15, external |-> 10]

\* the weights in percent
getDynamicWeights(marketCondition) ==
    CASE marketCondition = "BEARISH" ->
            [safety |-> 40, fundamental |-> 25, valuation |-> 25, momentum |-> 5, external |-> 5]
      [] marketCondition = "BULLISH" ->
            [safety |-> 20, fundamental |-> 30, valuation |-> 20, momentum |-> 20, external |-> 10]
      [] OTHER ->
            [safety |-> 30, fundamental |-> 25, valuation |-> 20, momentum |-> 15, external |-> 10]

\* compositeScore in hundredths, safetyScore in points
getRecommendation(compositeScore, safetyScore) ==
    IF compositeScore >= 70 * 100 /\ safetyScore >= 60 THEN "STRONG BUY"
    ELSE IF compositeScore >= 60 * 100 /\ safetyScore >= 50 THEN "BUY"
    ELSE IF compositeScore >= 50 * 100 THEN "ACCUMULATE"
    ELSE IF compositeScore >= 40 * 100 THEN "HOLD"
    ELSE "WATCH"

\* the weighted sum of the five layer scores, in hundredths
CompositeOf(layers, weights) ==
    weights.safety * layers.risk + weights.fundamental * layers.fundamental
    + weights.valuation * layers.valuation + weights.momentum * layers.momentum
    + weights.external * layers.external

\* lines 384-431: the result for a stock that passed the gates
ScoredRecord(s, gate, weights, marketCondition) ==
    [nseCode |-> s.NSECode, industry |-> s.Industry, passed |-> TRUE,
     gateResult |-> gate, scores |-> s.layers, return3m |-> s.Return3m,
     weights |-> weights, marketCondition |-> marketCondition,
     compositeScore |-> RoundDiv(CompositeOf(s.layers, weights), 100),
     recommendation |-> getRecommendation(CompositeOf(s.layers, weights), s.layers.risk)]

\* lines 371-382: the result for a stock that failed a gate
ExcludedRecord(s, gate) ==
    [nseCode |-> s.NSECode, industry |-> s.Industry, passed |-> FALSE,
     gateResult |-> gate, scores |-> Null, compositeScore |-> 0,
     recommendation |-> "EXCLUDED"]

\* variant: the gate result is recorded but never acted on
calculateStockScoreUngated(s, allStocks, marketCondition) ==
    ScoredRecord(s, checkQualityGates(s), getDynamicWeights(marketCondition), marketCondition)

\* variant: the early return is taken for the stocks that passed
calculateStockScoreInverted(s, allStocks, marketCondition) ==
    IF checkQualityGates(s).passed
    THEN ExcludedRecord(s, checkQualityGates(s))
    ELSE ScoredRecord(s, checkQualityGates(s), getDynamicWeights(marketCondition),
                      marketCondition)

\* marketCondition || detectMarketCondition(allStocks): "" stands for the
\* falsy values (an omitted argument, null, the empty string)
calculateStockScore(s, allStocks, marketCondition) ==
    LET cond == IF marketCondition = "" THEN detectMarketCondition(allStocks)
                ELSE marketCondition
    IN IF ~checkQualityGates(s).passed
       THEN ExcludedRecord(s, checkQualityGates(s))
       ELSE ScoredRecord(s, checkQualityGates(s), getDynamicWeights(cond), cond)

scoreAllStocks(in) ==
    LET marketCondition == detectMarketCondition(in)
        scored == [i \in DOMAIN in |-> calculateStockScore(in[i], in, marketCondition)]
        passed == SortDescBy(FilterSeq(scored, {s \in Range(scored) : s.passed}),
                             "compositeScore")
        failed == FilterSeq(scored, {s \in Range(scored) : ~s.passed})
    IN [marketCondition |-> marketCondition, passed |-> passed, failed |-> failed,
        summary |-> [total |-> Len(in), passedGates |-> Len(passed),
                     failedGates |-> Len(failed),
                     avgCompositeScore |->
                         IF Len(passed) > 0
                         THEN RoundDiv(SumField(passed, "compositeScore"), Len(passed))
                         ELSE 0]]

-----------------------------------------------------------------------------
(* Position sizing (positionSizing.js)                                     *)

\* default config of calculatePortfolioWeights, in percentage points
maxSingleStock == 12

maxTop5 == 50

maxPerSector == 25

minStockWeight == 2

targetEquityAllocation == 90

maxIterations == 10

\* .slice(0, 20)
poolLimit == 20

\* compositeScore >= 45
minComposite == 45

\* thousandths of a point per point (working weights)
Milli == 10 * 100

\* tenths of a point per point (final weights)
Tenth == Milli \div 100

emptyAllocation ==
    [stocks |-> <<>>, totalWeight |-> 0, cashAllocation |-> 100 * Tenth,
     sectorAllocation |-> <<>>]

\* variant: the pool starts at the HOLD threshold of 40
IsEligibleFromHold(s) == s.passed /\ s.compositeScore >= 40

\* .filter(s => s.passed && s.compositeScore >= 45)
IsEligible(s) == s.passed /\ s.compositeScore >= minComposite

\* .filter(...).slice(0, 20).map(s => ({ ...s }))
SelectEligible(in) ==
    TakeFirst(FilterSeq(in, {s \in Range(in) : IsEligible(s)}), poolLimit)

\* stock.compositeScore * Math.max(0.5, stock.scores.risk.score / 100), in hundredths
Conviction(s) == s.compositeScore * Max(50, s.scores.risk)

\* dynamic cap based on safety score, in points
DynamicCap(safetyScore) ==
    IF safetyScore >= 75 THEN maxSingleStock
    ELSE IF safetyScore >= 65 THEN 10
    ELSE IF safetyScore >= 55 THEN 8
    ELSE 5

\* steps 1-3 and the sector group assignment, for one stock
WithWeights(s, totalConviction) ==
    LET conviction == Conviction(s)
        rawWeight == RoundDiv(conviction * targetEquityAllocation * Milli, totalConviction)
    IN Extend(s, [conviction |-> conviction,
                  rawWeight |-> rawWeight,
                  cappedWeight |-> Min(rawWeight, DynamicCap(s.scores.risk) * Milli),
                  sectorGroup |-> getSectorGroup(s.industry)])

RECURSIVE SumConviction(_)
SumConviction(s) == IF s = <<>> THEN 0 ELSE Conviction(Head(s)) + SumConviction(Tail(s))

\* sectorTotals[sector] of one pass of the sector loop
SectorTotal(el, sector) ==
    SumField(FilterSeq(el, {s \in Range(el) : s.sectorGroup = sector}), "cappedWeight")

SectorOverflow(el) ==
    \E s \in Range(el) : SectorTotal(el, s.sectorGroup) > maxPerSector * Milli

\* variant: the scale factor is total / cap
SectorScaledInverse(el) ==
    [i \in DOMAIN el |->
        LET total == SectorTotal(el, el[i].sectorGroup)
        IN IF total > maxPerSector * Milli
           THEN [el[i] EXCEPT !.cappedWeight = RoundDiv(@ * total, maxPerSector * Milli)]
           ELSE el[i]]

\* one pass: every member of an overflowing sector is scaled by cap / total
SectorScaled(el) ==
    [i \in DOMAIN el |->
        LET total == SectorTotal(el, el[i].sectorGroup)
        IN IF total > maxPerSector * Milli
           THEN [el[i] EXCEPT !.cappedWeight = RoundDiv(@ * maxPerSector * Milli, total)]
           ELSE el[i]]

\* step 5: sort by weight and scale the first five when they exceed maxTop5
Top5Limited(el) ==
    LET sorted == SortDescBy(el, "cappedWeight")
        top5Total == SumField(TakeFirst(sorted, 5), "cappedWeight")
    IN IF top5Total > maxTop5 * Milli
       THEN [i \in DOMAIN sorted |->
                IF i <= 5
                THEN [sorted[i] EXCEPT !.cappedWeight = RoundDiv(@ * maxTop5 * Milli, top5Total)]
                ELSE sorted[i]]
       ELSE sorted

\* variant: only the stocks below half the minimum weight are marked
PrunedBelowHalf(el) ==
    [i \in DOMAIN el |-> Extend(el[i], [excluded |-> 2 * el[i].cappedWeight < minStockWeight * Milli])]

\* step 6: mark the stocks below the minimum weight
Pruned(el) ==
    [i \in DOMAIN el |-> Extend(el[i], [excluded |-> el[i].cappedWeight < minStockWeight * Milli])]

\* step 7: Math.round(cappedWeight * normalizer * 10) / 10, in tenths
Normalized(inc) ==
    LET rawTotal == SumField(inc, "cappedWeight")
    IN [i \in DOMAIN inc |->
           Extend(inc[i], [weight |->
               IF rawTotal > 0
               THEN RoundDiv(inc[i].cappedWeight * targetEquityAllocation * Tenth, rawTotal)
               ELSE RoundDiv(inc[i].cappedWeight * Tenth, Milli)])]

\* targetEquityAllocation - currentTotal, in tenths
Residual(inc) == targetEquityAllocation * Tenth - SumField(inc, "weight")

\* variant: the rounding residual is left where it is
Unadjusted(inc) == inc

\* includedStocks[0].weight = Math.round((includedStocks[0].weight + diff) * 10) / 10
Adjusted(inc) == [inc EXCEPT ![1].weight = @ + Residual(inc)]

\* variant: the cash is taken out of the equity target instead of 100
CashOutOfTarget(finalTotal) == targetEquityAllocation * Tenth - finalTotal

\* Math.round((100 - finalTotal) * 10) / 10, in tenths
CashAllocation(finalTotal) == 100 * Tenth - finalTotal

\* one entry of finalStocks
FinalStock(s) ==
    [nseCode |-> s.nseCode, industry |-> s.industry, sectorGroup |-> s.sectorGroup,
     weight |-> s.weight, compositeScore |-> s.compositeScore,
     recommendation |-> s.recommendation, scores |-> s.scores,
     conviction |-> RoundDiv(s.conviction, 100)]

\* sectors in order of first appearance (insertion order of the object keys)
RECURSIVE SectorKeys(_)
SectorKeys(s) ==
    IF s = <<>> THEN <<>>
    ELSE LET rest == SectorKeys(SubSeq(s, 1, Len(s) - 1))
             g == s[Len(s)].sectorGroup
         IN IF g \in Range(rest) THEN rest ELSE Append(rest, g)

calculateSectorAllocation(fs) ==
    LET keys == SectorKeys(fs)
        entries == [i \in DOMAIN keys |->
                       [sector |-> keys[i],
                        weight |-> SumField(FilterSeq(fs, {s \in Range(fs) : s.sectorGroup = keys[i]}),
                                            "weight")]]
    IN SortDescBy(entries, "weight")


-----------------------------------------------------------------------------
(* calculatePortfolioWeights as a sequence of steps                        *)

\* where a finished calculatePortfolioWeights call returns to
ReturnPoint ==
    CASE caller = "generateRecommendation" -> "gr_assemble"
      [] caller = "generateRecommendationAI" -> "ai_picks"
      [] OTHER -> "done"

\* lines 24-28: what the caller's array holds after the working array was
\* written.  filter and slice build a new array and .map(s => ({ ...s }))
\* fills it with copies, so neither the sort of line 99 nor a field written
\* on a pool element reaches the caller's array or its elements
ArgumentSharedWith(input, working) ==
    [i \in DOMAIN input |->
        IF \E j \in DOMAIN working : working[j].nseCode = input[i].nseCode
        THEN working[CHOOSE j \in DOMAIN working : working[j].nseCode = input[i].nseCode]
        ELSE input[i]]

ArgumentAfter(input, working) ==
    input

\* lines 24-32: eligibility filter, early return on an empty pool
CPW_Filter ==
    /\ pc = "cpw_filter"
    /\ LET el == SelectEligible(scoredStocks)
       IN /\ eligibleStocks' = el
          /\ IF Len(el) = 0
             THEN /\ portfolioResult' = emptyAllocation
                  /\ pc' = ReturnPoint
             ELSE /\ portfolioResult' = portfolioResult
                  /\ pc' = "cpw_weights"
    /\ UNCHANGED <<caller, stocks, scoringResult, scoredStocks, iterations,
                   includedStocks, recommendation>>
    /\ UNCHANGED gateVars
    /\ UNCHANGED auxVars

\* lines 34-69: conviction, raw weight, per-stock cap, sector group
CPW_Weights ==
    /\ pc = "cpw_weights"
    /\ LET totalConviction == SumConviction(eligibleStocks)
       IN eligibleStocks' = [i \in DOMAIN eligibleStocks |->
                                WithWeights(eligibleStocks[i], totalConviction)]
    /\ scoredStocks' = ArgumentAfter(scoredStocks, eligibleStocks')
    /\ iterations' = 0
    /\ pc' = "cpw_sector"
    /\ UNCHANGED <<caller, stocks, scoringResult, includedStocks,
                   portfolioResult, recommendation>>
    /\ UNCHANGED gateVars
    /\ UNCHANGED auxVars

\* lines 71-96: one pass of while (iterations < maxIterations)
CPW_SectorPass ==
    /\ pc = "cpw_sector"
    /\ iterations < maxIterations
    /\ iterations' = iterations + 1
    /\ eligibleStocks' = SectorScaled(eligibleStocks)
    /\ scoredStocks' = ArgumentAfter(scoredStocks, eligibleStocks')
    /\ pc' = IF ~SectorOverflow(eligibleStocks) \/ iterations + 1 >= maxIterations
             THEN "cpw_top5" ELSE "cpw_sector"
    /\ UNCHANGED <<caller, stocks, scoringResult, includedStocks,
                   portfolioResult, recommendation>>
    /\ UNCHANGED gateVars
    /\ UNCHANGED auxVars

\* lines 98-107: sort by weight, top-5 limit
CPW_Top5 ==
    /\ pc = "cpw_top5"
    /\ eligibleStocks' = Top5Limited(eligibleStocks)
    /\ scoredStocks' = ArgumentAfter(scoredStocks, eligibleStocks')
    /\ pc' = "cpw_normalize"
    /\ UNCHANGED <<caller, stocks, scoringResult, iterations,
                   includedStocks, portfolioResult, recommendation>>
    /\ UNCHANGED gateVars
    /\ UNCHANGED auxVars

\* lines 109-133: pruning, normalization, rounding adjustment of the first
\* stock.  Math.abs(diff) >= 0.1 is evaluated on doubles: when the residual
\* is exactly one tenth, 90 - currentTotal comes out just below or just
\* above 0.1 depending on the accumulated rounding error of the sum, so the
\* adjustment may or may not be applied.
CPW_Normalize ==
    /\ pc = "cpw_normalize"
    /\ LET marked == Pruned(eligibleStocks)
           included == Normalized(FilterSeq(marked, {s \in Range(marked) : ~s.excluded}))
           diff == Residual(included)
       IN /\ eligibleStocks' = marked
          /\ \E adjust \in BOOLEAN :
                /\ adjust => Len(included) > 0 /\ Abs(diff) >= 1
                /\ ~adjust => Len(included) = 0 \/ Abs(diff) <= 1
                /\ includedStocks' = IF adjust THEN Adjusted(included) ELSE included
    /\ scoredStocks' = ArgumentAfter(scoredStocks, eligibleStocks')
    /\ pc' = "cpw_return"
    /\ UNCHANGED <<caller, stocks, scoringResult, iterations,
                   portfolioResult, recommendation>>
    /\ UNCHANGED gateVars
    /\ UNCHANGED auxVars

\* lines 135-175: totals, cash, output records, final sort, sector summary
CPW_Return ==
    /\ pc = "cpw_return"
    /\ LET finalTotal == SumField(includedStocks, "weight")
           finalStocks == SortDescBy([i \in DOMAIN includedStocks |->
                                         FinalStock(includedStocks[i])], "weight")
       IN portfolioResult' =
              [stocks |-> finalStocks,
               totalWeight |-> finalTotal,
               cashAllocation |-> CashAllocation(finalTotal),
               sectorAllocation |-> calculateSectorAllocation(finalStocks),
               excludedCount |-> Len(eligibleStocks) - Len(includedStocks)]
    /\ pc' = ReturnPoint
    /\ UNCHANGED <<caller, stocks, scoringResult, scoredStocks, eligibleStocks,
                   iterations, includedStocks, recommendation>>
    /\ UNCHANGED gateVars
    /\ UNCHANGED auxVars

CalculatePortfolioWeights ==
    \/ CPW_Filter
    \/ CPW_Weights
    \/ CPW_SectorPass
    \/ CPW_Top5
    \/ CPW_Normalize
    \/ CPW_Return

-----------------------------------------------------------------------------
(* Direct calls of calculatePortfolioWeights(scoredStocks)                 *)

LayerScores(risk) ==
    [risk |-> risk, fundamental |-> 60, valuation |-> 60, momentum |-> 60, external |-> 60]

\* the scored stocks a caller may pass, keyed by a profile name
ScoredProfiles ==
    [leader |-> [passed |-> TRUE, compositeScore |-> 100, scores |-> LayerScores(100),
                 industry |-> "Pharmaceuticals", recommendation |-> "STRONG BUY"],
     laggard |-> [passed |-> TRUE, compositeScore |-> 45, scores |-> LayerScores(40),
                  industry |-> "Pharmaceuticals", recommendation |-> "HOLD"],
     software |-> [passed |-> TRUE, compositeScore |-> 70, scores |-> LayerScores(80),
                   industry |-> "Software Products", recommendation |-> "STRONG BUY"],
     builder |-> [passed |-> TRUE, compositeScore |-> 60, scores |-> LayerScores(80),
                  industry |-> "Civil Construction", recommendation |-> "BUY"],
     weak |-> [passed |-> TRUE, compositeScore |-> 44, scores |-> LayerScores(80),
               industry |-> "Software Products", recommendation |-> "HOLD"]]

\* the i-th element of the input takes its NSE code from its position
ScoredInput(names) ==
    [i \in DOMAIN names |-> Extend(ScoredProfiles[names[i]], [nseCode |-> i])]

ScoredInputs ==
    {ScoredInput(names) : names \in UNION {[1..n -> DOMAIN ScoredProfiles] : n \in 0..MaxStocks}}

NoGate ==
    /\ stock = Null
    /\ gateResult = Null
    /\ lowered = Null
    /\ loweredResult = Null

NoMarket ==
    /\ condition = Null
    /\ dynamicWeights = Null

NoLayers == scores = Null

NoCompare ==
    /\ current = Null
    /\ previous = Null
    /\ comparison = Null

NoValidate == validation = Null

NoAI ==
    /\ topPicks = <<>>
    /\ enhancedPicks = <<>>
    /\ aiFailed = {}

NoStore ==
    /\ savedFile = <<>>
    /\ historyFile = <<>>
    /\ thisWeek = 1
    /\ clock = 0
    /\ resaves = 0
    /\ savedByWeek = <<>>

NoAux ==
    /\ NoStore
    /\ NoMarket
    /\ NoLayers
    /\ NoCompare
    /\ NoValidate
    /\ NoAI

InitSizing ==
    /\ pc = "cpw_filter"
    /\ caller = "direct"
    /\ stocks = <<>>
    /\ scoringResult = Null
    /\ scoredStocks \in ScoredInputs
    /\ eligibleStocks = <<>>
    /\ iterations = 0
    /\ includedStocks = <<>>
    /\ portfolioResult = Null
    /\ recommendation = Null
    /\ NoGate
    /\ NoAux

NextSizing == CalculatePortfolioWeights

SpecSizing == InitSizing /\ [][NextSizing]_vars

\* longest list of the direct calls that fill the candidate pool
MaxPool == 22

\* lists of builders with at most one leader, at any position
PoolInputs ==
    {ScoredInput([i \in 1..n |-> IF i = k THEN "leader" ELSE "builder"]) : n \in 0..MaxPool, k \in 0..MaxPool}

InitPool ==
    /\ pc = "cpw_filter"
    /\ caller = "direct"
    /\ stocks = <<>>
    /\ scoringResult = Null
    /\ scoredStocks \in PoolInputs
    /\ eligibleStocks = <<>>
    /\ iterations = 0
    /\ includedStocks = <<>>
    /\ portfolioResult = Null
    /\ recommendation = Null
    /\ NoGate
    /\ NoAux

SpecPool == InitPool /\ [][NextSizing]_vars

\* a scored stock as scoreAllStocks reports it
Scored(code, composite, safety, industry) ==
    [nseCode |-> code, passed |-> TRUE, compositeScore |-> composite,
     scores |-> LayerScores(safety), industry |-> industry,
     recommendation |-> getRecommendation(composite * 100, safety)]

\* six stocks of three sector groups, each with a safety score that gives
\* the cap of 12
SixCapped ==
    <<Scored(1, 60, 100, "Pharmaceuticals"), Scored(2, 100, 80, "Software Products"),
      Scored(3, 90, 100, "Pharmaceuticals"), Scored(4, 60, 100, "Software Products"),
      Scored(5, 45, 100, "Civil Construction"), Scored(6, 60, 100, "Civil Construction")>>

\* the lists obtained from SixCapped by leaving stocks out
SixCappedInputs ==
    {FilterSeq(SixCapped, {st \in Range(SixCapped) : st.nseCode \in codes}) : codes \in SUBSET (1..6)}

InitResidual ==
    /\ pc = "cpw_filter"
    /\ caller = "direct"
    /\ stocks = <<>>
    /\ scoringResult = Null
    /\ scoredStocks \in SixCappedInputs
    /\ eligibleStocks = <<>>
    /\ iterations = 0
    /\ includedStocks = <<>>
    /\ portfolioResult = Null
    /\ recommendation = Null
    /\ NoGate
    /\ NoAux

SpecResidual == InitResidual /\ [][NextSizing]_vars

\* longest list of the three-tier inputs
MaxTiered == 20

\* industries of five different sector groups, taken in turn
TierIndustries ==
    <<"Pharmaceuticals", "Software Products", "Civil Construction", "Financial Institution", "Textiles">>

\* strong stocks first (composite 100, safety 100), then middling ones
\* (composite 48, safety 50), then the weakest that can enter the pool
\* (composite 45, safety 40): the conviction of the last two tiers is 24 and
\* 22.5, so in a long list their raw weights lie on either side of
\* minStockWeight
Tiered(strong, middling, weakest) ==
    [i \in 1..(strong + middling + weakest) |->
        Scored(i,
               IF i <= strong THEN 100 ELSE IF i <= strong + middling THEN 48 ELSE 45,
               IF i <= strong THEN 100 ELSE IF i <= strong + middling THEN 50 ELSE 40,
               TierIndustries[((i - 1) % Len(TierIndustries)) + 1])]

TieredInputs ==
    {Tiered(tier[1], tier[2], tier[3]) :
        tier \in {x \in (0..MaxTiered) \X (0..MaxTiered) \X (0..4) : x[1] + x[2] + x[3] <= MaxTiered}}

InitMinimum ==
    /\ pc = "cpw_filter"
    /\ caller = "direct"
    /\ stocks = <<>>
    /\ scoringResult = Null
    /\ scoredStocks \in TieredInputs
    /\ eligibleStocks = <<>>
    /\ iterations = 0
    /\ includedStocks = <<>>
    /\ portfolioResult = Null
    /\ recommendation = Null
    /\ NoGate
    /\ NoAux

SpecMinimum == InitMinimum /\ [][NextSizing]_vars


-----------------------------------------------------------------------------
(* Recommendation assembly (recommendation/engine.js)                      *)

\* riskScore.js getRiskLevel
getRiskLevel(score) ==
    IF score >= 80 THEN "Very Low"
    ELSE IF score >= 65 THEN "Low"
    ELSE IF score >= 50 THEN "Moderate"
    ELSE IF score >= 35 THEN "High"
    ELSE "Very High"

\* variant: a sector at exactly 26% is reported as well
ValidationIssuesStrict(result) ==
    LET totalWeight == SumField(result.stocks, "weight")
        top5Weight == SumField(TakeFirst(result.stocks, 5), "weight")
        sectorIssues == [i \in DOMAIN result.sectorAllocation |-> "Sector exceeds 25% limit"]
        stockIssues == [i \in DOMAIN result.stocks |-> "Stock exceeds 12% limit"]
    IN (IF Abs(totalWeight - result.totalWeight) > 1 * Tenth
        THEN <<"Weight mismatch">> ELSE <<>>)
       \o FilterSeq([i \in DOMAIN sectorIssues |->
                        IF result.sectorAllocation[i].weight >= 26 * Tenth
                        THEN sectorIssues[i] ELSE ""], {"Sector exceeds 25% limit"})
       \o FilterSeq([i \in DOMAIN stockIssues |->
                        IF result.stocks[i].weight > 13 * Tenth
                        THEN stockIssues[i] ELSE ""], {"Stock exceeds 12% limit"})
       \o (IF top5Weight > 52 * Tenth THEN <<"Top 5 concentration">> ELSE <<>>)

\* validateWeights(result).issues, one entry per violation, weights in tenths
ValidationIssues(result) ==
    LET totalWeight == SumField(result.stocks, "weight")
        top5Weight == SumField(TakeFirst(result.stocks, 5), "weight")
        sectorIssues == [i \in DOMAIN result.sectorAllocation |-> "Sector exceeds 25% limit"]
        stockIssues == [i \in DOMAIN result.stocks |-> "Stock exceeds 12% limit"]
    IN (IF Abs(totalWeight - result.totalWeight) > 1 * Tenth
        THEN <<"Weight mismatch">> ELSE <<>>)
       \o FilterSeq([i \in DOMAIN sectorIssues |->
                        IF result.sectorAllocation[i].weight > 26 * Tenth
                        THEN sectorIssues[i] ELSE ""], {"Sector exceeds 25% limit"})
       \o FilterSeq([i \in DOMAIN stockIssues |->
                        IF result.stocks[i].weight > 13 * Tenth
                        THEN stockIssues[i] ELSE ""], {"Stock exceeds 12% limit"})
       \o (IF top5Weight > 52 * Tenth THEN <<"Top 5 concentration">> ELSE <<>>)

validateWeights(result) ==
    LET issues == ValidationIssues(result)
    IN [valid |-> Len(issues) = 0,
        issues |-> issues,
        summary |-> [stockCount |-> Len(result.stocks),
                     totalWeight |-> result.totalWeight,
                     cashAllocation |-> result.cashAllocation,
                     sectorCount |-> Len(result.sectorAllocation),
                     top5Weight |-> SumField(TakeFirst(result.stocks, 5), "weight")]]

getStrengths(s) ==
    LET strengths ==
            (IF s.scores.risk >= 70 THEN <<"Low risk profile">> ELSE <<>>)
            \o (IF s.scores.fundamental >= 70 THEN <<"Strong fundamentals">> ELSE <<>>)
            \o (IF s.scores.valuation >= 70 THEN <<"Attractive valuation">> ELSE <<>>)
            \o (IF s.scores.momentum >= 60 THEN <<"Positive momentum">> ELSE <<>>)
            \o (IF s.scores.external >= 60 THEN <<"Favorable sector trends">> ELSE <<>>)
    IN IF Len(strengths) = 0 /\ s.compositeScore >= 55
       THEN <<"Balanced overall profile">> ELSE strengths

getRisks(s) ==
    (IF s.scores.risk < 50 THEN <<"Above average risk">> ELSE <<>>)
    \o (IF s.scores.momentum < 40 THEN <<"Weak momentum">> ELSE <<>>)
    \o (IF s.scores.valuation < 40 THEN <<"Valuation concerns">> ELSE <<>>)
    \o (IF getRiskLevel(s.scores.risk) \in {"High", "Very High"}
        THEN <<"Elevated overall risk">> ELSE <<>>)

\* stocks.slice(0, 5).map(...)
getTopPicks(allocated) ==
    LET top == TakeFirst(allocated, 5)
    IN [i \in DOMAIN top |->
           [code |-> top[i].nseCode, weight |-> top[i].weight,
            industry |-> top[i].industry, compositeScore |-> top[i].compositeScore,
            recommendation |-> top[i].recommendation,
            strengths |-> getStrengths(top[i]), risks |-> getRisks(top[i]),
            scoreBreakdown |-> top[i].scores]]

getWatchlistReason(s) ==
    IF s.scores.momentum < 45 THEN "Good fundamentals, waiting for better entry point"
    ELSE IF s.scores.valuation < 45 THEN "Quality stock but currently expensive"
    ELSE IF s.scores.risk < 50 THEN "Potential but needs risk reduction"
    ELSE "Monitor for allocation opportunity"

\* variant: the composite score is not looked at
getWatchlistAnyScore(allPassed, allocated) ==
    LET allocatedCodes == {allocated[i].nseCode : i \in DOMAIN allocated}
        kept == TakeFirst(FilterSeq(allPassed,
                    {s \in Range(allPassed) : s.nseCode \notin allocatedCodes}), 10)
    IN [i \in DOMAIN kept |->
           [code |-> kept[i].nseCode, industry |-> kept[i].industry,
            compositeScore |-> kept[i].compositeScore,
            recommendation |-> kept[i].recommendation,
            reason |-> getWatchlistReason(kept[i])]]

getWatchlist(allPassed, allocated) ==
    LET allocatedCodes == {allocated[i].nseCode : i \in DOMAIN allocated}
        kept == TakeFirst(FilterSeq(allPassed,
                    {s \in Range(allPassed) :
                        s.nseCode \notin allocatedCodes /\ s.compositeScore >= 50}), 10)
    IN [i \in DOMAIN kept |->
           [code |-> kept[i].nseCode, industry |-> kept[i].industry,
            compositeScore |-> kept[i].compositeScore,
            recommendation |-> kept[i].recommendation,
            reason |-> getWatchlistReason(kept[i])]]

\* all failure categories of the failed stocks, in order
RECURSIVE AllFailures(_)
AllFailures(failedStocks) ==
    IF failedStocks = <<>> THEN <<>>
    ELSE Head(failedStocks).gateResult.failures \o AllFailures(Tail(failedStocks))

\* categories in order of first appearance
RECURSIVE Distinct(_)
Distinct(s) ==
    IF s = <<>> THEN <<>>
    ELSE LET rest == Distinct(SubSeq(s, 1, Len(s) - 1))
         IN IF s[Len(s)] \in Range(rest) THEN rest ELSE Append(rest, s[Len(s)])

getExclusionSummary(failedStocks) ==
    LET all == AllFailures(failedStocks)
        keys == Distinct(all)
    IN SortDescBy([i \in DOMAIN keys |->
                      [reason |-> keys[i],
                       count |-> Cardinality({j \in DOMAIN all : all[j] = keys[i]})]],
                  "count")

\* generateScoringStats(scoringResult).topScorers
TopScorers(result) ==
    LET top == TakeFirst(result.passed, 10)
    IN [i \in DOMAIN top |-> [code |-> top[i].nseCode, score |-> top[i].compositeScore,
                              recommendation |-> top[i].recommendation]]

\* the recommendation object built by generateRecommendation
BuildRecommendation(in, scoring, portfolio) ==
    LET topScorers == TopScorers(scoring)
    IN [marketCondition |-> scoring.marketCondition,
        summary |-> [totalAnalyzed |-> Len(in),
                     passedGates |-> Len(scoring.passed),
                     failedGates |-> Len(scoring.failed),
                     recommendedStocks |-> Len(portfolio.stocks),
                     averageScore |->
                         IF Len(topScorers) > 0
                         THEN RoundDiv(SumField(topScorers, "score"), Len(topScorers))
                         ELSE 0],
        allocation |-> [stocks |-> portfolio.stocks,
                        totalEquity |-> portfolio.totalWeight,
                        cash |-> portfolio.cashAllocation,
                        sectorBreakdown |-> portfolio.sectorAllocation],
        topPicks |-> getTopPicks(portfolio.stocks),
        watchlist |-> getWatchlist(scoring.passed, portfolio.stocks),
        excluded |-> [count |-> Len(scoring.failed),
                      reasons |-> getExclusionSummary(scoring.failed)],
        validation |-> validateWeights(portfolio)]

-----------------------------------------------------------------------------
(* generateRecommendation(stocks)                                          *)

SoundGateFields ==
    [ROCE |-> 250, AvgROCE3Y |-> 220, PromoterHolding |-> 550, PromoterChange |-> 0,
     MarketCap |-> 5000, AvgVolume |-> 100000, BSchklist |-> 6, Canslim |-> 1,
     MasterScore |-> 7, CashFlow |-> 100, SalesGrowth |-> 15, DebtGeni |-> 2]

Layers(r, f, v, m, e) ==
    [risk |-> r, fundamental |-> f, valuation |-> v, momentum |-> m, external |-> e]

\* the stock records a universe is drawn from, keyed by a profile name
StockProfiles ==
    [star |-> Extend(SoundGateFields,
                [Industry |-> "Pharmaceuticals", Return3m |-> 20,
                 layers |-> Layers(80, 88, 70, 80, 80)]),
     steady |-> Extend(SoundGateFields,
                [Industry |-> "Software Products", Return3m |-> 15,
                 layers |-> Layers(80, 70, 60, 60, 70)]),
     builder |-> Extend(SoundGateFields,
                [Industry |-> "Civil Construction", Return3m |-> 12,
                 layers |-> Layers(62, 60, 50, 40, 60)]),
     dull |-> Extend(SoundGateFields,
                [Industry |-> "Textiles", Return3m |-> -25,
                 layers |-> Layers(50, 40, 40, 40, 40)]),
     unprofitable |-> Extend(SoundGateFields,
                [Industry |-> "Pharmaceuticals", ROCE |-> 50, AvgROCE3Y |-> 60,
                 Return3m |-> -20, layers |-> Layers(90, 90, 90, 90, 90)]),
     closelyHeld |-> Extend(SoundGateFields,
                [Industry |-> "Software Products", PromoterHolding |-> 100,
                 MarketCap |-> 200, Return3m |-> 5,
                 layers |-> Layers(85, 80, 80, 80, 80)])]

\* the i-th record of the universe takes its NSE code from its position
Universe(names) ==
    [i \in DOMAIN names |-> Extend(StockProfiles[names[i]], [NSECode |-> i])]

Universes ==
    {Universe(names) : names \in UNION {[1..n -> DOMAIN StockProfiles] : n \in 0..MaxUniverse}}

Init ==
    /\ pc = "gr_score"
    /\ caller = "generateRecommendation"
    /\ stocks \in Universes
    /\ scoringResult = Null
    /\ scoredStocks = <<>>
    /\ eligibleStocks = <<>>
    /\ iterations = 0
    /\ includedStocks = <<>>
    /\ portfolioResult = Null
    /\ recommendation = Null
    /\ NoGate
    /\ NoAux

\* lines 18-25: scoreAllStocks(stocks), then calculatePortfolioWeights(passed)
GR_Score ==
    /\ pc = "gr_score"
    /\ scoringResult' = scoreAllStocks(stocks)
    /\ scoredStocks' = scoreAllStocks(stocks).passed
    /\ pc' = "cpw_filter"
    /\ UNCHANGED <<caller, stocks, eligibleStocks, iterations, includedStocks,
                   portfolioResult, recommendation>>
    /\ UNCHANGED gateVars
    /\ UNCHANGED auxVars

\* lines 27-72: validation and the recommendation object
GR_Assemble ==
    /\ pc = "gr_assemble"
    /\ recommendation' = BuildRecommendation(stocks, scoringResult, portfolioResult)
    /\ pc' = "done"
    /\ UNCHANGED <<caller, stocks, scoringResult>>
    /\ UNCHANGED sizingVars
    /\ UNCHANGED gateVars
    /\ UNCHANGED auxVars

Next ==
    \/ GR_Score
    \/ CalculatePortfolioWeights
    \/ GR_Assemble

Spec == Init /\ [][Next]_vars

-----------------------------------------------------------------------------
(* checkQualityGates on one stock, then on the same stock with a lower     *)
(* ROCE                                                                    *)

GateIndustries == {"Pharmaceuticals", "Civil Construction", "Financial Institution", ""}

ROCEValues == {50, 64, 96, 120, 150}

AvgROCEValues == {40, 64, 96, 97, 120}

PromoterValues == {0, 259, 260}

MarketCapValues == {0, 299, 300}

\* the fields that only feed warnings
WarningProfiles ==
    [PromoterChange : {-30, 0}, AvgVolume : {4999, 5000},
     BSchklist : {0, 5}, Canslim : {0}, MasterScore : {0},
     CashFlow : {-10, 10}, SalesGrowth : {10}, DebtGeni : {0, 1}]

GateStocks ==
    {Extend([Industry |-> i, ROCE |-> r, AvgROCE3Y |-> a, PromoterHolding |-> p,
             MarketCap |-> m], w) :
        i \in GateIndustries, r \in ROCEValues, a \in AvgROCEValues,
        p \in PromoterValues, m \in MarketCapValues, w \in WarningProfiles}

NoRun ==
    /\ caller = "checkQualityGates"
    /\ stocks = <<>>
    /\ scoringResult = Null
    /\ scoredStocks = <<>>
    /\ eligibleStocks = <<>>
    /\ iterations = 0
    /\ includedStocks = <<>>
    /\ portfolioResult = Null
    /\ recommendation = Null

InitGate ==
    /\ pc = "gate_check"
    /\ NoRun
    /\ stock \in GateStocks
    /\ gateResult = Null
    /\ lowered = Null
    /\ loweredResult = Null
    /\ NoAux

CheckGates ==
    /\ pc = "gate_check"
    /\ gateResult' = checkQualityGates(stock)
    /\ pc' = "gate_lower"
    /\ UNCHANGED <<caller, stocks, scoringResult, recommendation, stock, lowered,
                   loweredResult>>
    /\ UNCHANGED sizingVars
    /\ UNCHANGED auxVars

\* the same stock, identical except for a lower 'Return on capital employed'
CheckLowered ==
    /\ pc = "gate_lower"
    /\ \E r \in ROCEValues \cup {0, -50} :
          /\ r < stock.ROCE
          /\ lowered' = [stock EXCEPT !.ROCE = r]
          /\ loweredResult' = checkQualityGates([stock EXCEPT !.ROCE = r])
    /\ pc' = "done"
    /\ UNCHANGED <<caller, stocks, scoringResult, recommendation, stock, gateResult>>
    /\ UNCHANGED sizingVars
    /\ UNCHANGED auxVars

NextGate == CheckGates \/ CheckLowered

SpecGate == InitGate /\ [][NextGate]_vars


-----------------------------------------------------------------------------
(* scoreAllStocks(stocks) on a universe of up to MaxMarket stocks, then    *)
(* calculateStockScore(stock, stocks, marketCondition) for one of them     *)
(* under a market condition of the caller's choice                         *)

\* largest universe
MaxMarket == 10

\* 3-month return (whole percent) and layer scores of the stocks of a universe
MarketProfiles ==
    << [Return3m |-> -40, layers |-> Layers(0, 0, 0, 0, 0)],
       [Return3m |-> -10, layers |-> Layers(50, 40, 40, 40, 40)],
       [Return3m |-> 0, layers |-> Layers(60, 60, 60, 60, 60)],
       [Return3m |-> 10, layers |-> Layers(80, 70, 60, 60, 70)],
       [Return3m |-> 40, layers |-> Layers(100, 100, 100, 100, 100)] >>

\* how many stocks of each profile a universe holds
MarketCounts ==
    {c \in [DOMAIN MarketProfiles -> 0..MaxMarket] :
        c[1] + c[2] + c[3] + c[4] + c[5] <= MaxMarket}

\* the universe with c[k] stocks of profile k, in the order of the profiles
MarketUniverse(c) ==
    LET names == [i \in 1..c[1] |-> 1] \o [i \in 1..c[2] |-> 2] \o [i \in 1..c[3] |-> 3]
                 \o [i \in 1..c[4] |-> 4] \o [i \in 1..c[5] |-> 5]
    IN [i \in DOMAIN names |->
           Extend(Extend(SoundGateFields, MarketProfiles[names[i]]),
                  [Industry |-> "Pharmaceuticals", NSECode |-> i])]

\* what a caller passes as marketCondition; "SIDEWAYS" is in no table
CallerConditions == {"", "BULLISH", "BEARISH", "NEUTRAL", "SIDEWAYS"}

InitMarket ==
    /\ pc = "mc_score_all"
    /\ caller = "scoreAllStocks"
    /\ stocks \in {MarketUniverse(c) : c \in MarketCounts}
    /\ scoringResult = Null
    /\ scoredStocks = <<>>
    /\ eligibleStocks = <<>>
    /\ iterations = 0
    /\ includedStocks = <<>>
    /\ portfolioResult = Null
    /\ recommendation = Null
    /\ NoGate
    /\ NoAux

\* scoreAllStocks(stocks)
MC_ScoreAll ==
    /\ pc = "mc_score_all"
    /\ scoringResult' = scoreAllStocks(stocks)
    /\ pc' = "mc_score_one"
    /\ UNCHANGED <<caller, stocks, recommendation>>
    /\ UNCHANGED <<storeVars, sizingVars, gateVars, layerVars, compareVars, validateVars, aiVars>>
    /\ UNCHANGED marketVars

\* calculateStockScore(stocks[i], stocks, c): the condition and the weights
\* of the result
MC_ScoreOne ==
    /\ pc = "mc_score_one"
    /\ \E i \in DOMAIN stocks, c \in CallerConditions :
          LET result == calculateStockScore(stocks[i], stocks, c)
          IN /\ result.passed
             /\ condition' = result.marketCondition
             /\ dynamicWeights' = result.weights
    /\ pc' = "done"
    /\ UNCHANGED <<caller, stocks, scoringResult, recommendation>>
    /\ UNCHANGED <<storeVars, sizingVars, gateVars, layerVars, compareVars, validateVars, aiVars>>

NextMarket == MC_ScoreAll \/ MC_ScoreOne

SpecMarket == InitMarket /\ [][NextMarket]_vars

-----------------------------------------------------------------------------
(* The layer specification: calculateStockScore's five layer calls on one  *)
(* stock record, drawn field group by field group, within a universe of    *)
(* the stock and up to MaxPeers other stocks.                              *)

MaxPeers == 2

\* profitability and balance-sheet fields
ProfitabilityLevels ==
    {[ROCE |-> 300, AvgROCE3Y |-> 280, OpMargin |-> 25, NpMargin |-> 18,
      CashFlow |-> 12, EpsGeni |-> 30, RoceV2 |-> 20, MasterScore |-> 10,
      DebtGeni |-> 4, DebtReduce |-> 1, EquityReduce |-> 1],
     [ROCE |-> 180, AvgROCE3Y |-> 190, OpMargin |-> 12, NpMargin |-> 6,
      CashFlow |-> 6, EpsGeni |-> 15, RoceV2 |-> 10, MasterScore |-> 7,
      DebtGeni |-> 2, DebtReduce |-> 0, EquityReduce |-> 0],
     [ROCE |-> 80, AvgROCE3Y |-> 200, OpMargin |-> 6, NpMargin |-> 2,
      CashFlow |-> 0, EpsGeni |-> 4, RoceV2 |-> 0, MasterScore |-> 3,
      DebtGeni |-> 1, DebtReduce |-> 0, EquityReduce |-> 0],
     [ROCE |-> 30, AvgROCE3Y |-> 0, OpMargin |-> 2, NpMargin |-> -5,
      CashFlow |-> -10, EpsGeni |-> 0, RoceV2 |-> 0, MasterScore |-> 0,
      DebtGeni |-> 0, DebtReduce |-> 0, EquityReduce |-> 0]}

\* growth fields
GrowthLevels ==
    {[ProfitGrowth |-> 50, ProfitGrowth3Y |-> 30, SalesGrowth |-> 20,
      SalesGrowth3Y |-> 15, YoYQProfit |-> 40, YoYQSales |-> 30],
     [ProfitGrowth |-> 5, ProfitGrowth3Y |-> 8, SalesGrowth |-> 5,
      SalesGrowth3Y |-> 10, YoYQProfit |-> 0, YoYQSales |-> 0],
     [ProfitGrowth |-> -30, ProfitGrowth3Y |-> -15, SalesGrowth |-> -10,
      SalesGrowth3Y |-> -5, YoYQProfit |-> -40, YoYQSales |-> -20],
     [ProfitGrowth |-> 30, ProfitGrowth3Y |-> 5, SalesGrowth |-> 10,
      SalesGrowth3Y |-> 0, YoYQProfit |-> 120, YoYQSales |-> 60]}

\* price, moving averages and returns
PriceLevels ==
    {[Price |-> 120, DMA50 |-> 110, DMA200 |-> 100, DMA50Prev |-> 109,
      DMA200Prev |-> 99, Return1w |-> 2, Return1m |-> 5, Return3m |-> 20,
      MomentumScore |-> 5, RsiIncr |-> 1],
     [Price |-> 150, DMA50 |-> 120, DMA200 |-> 100, DMA50Prev |-> 119,
      DMA200Prev |-> 99, Return1w |-> 10, Return1m |-> 45, Return3m |-> 35,
      MomentumScore |-> 4, RsiIncr |-> 0],
     [Price |-> 105, DMA50 |-> 108, DMA200 |-> 100, DMA50Prev |-> 108,
      DMA200Prev |-> 100, Return1w |-> 1, Return1m |-> -5, Return3m |-> -12,
      MomentumScore |-> 2, RsiIncr |-> 1],
     [Price |-> 60, DMA50 |-> 80, DMA200 |-> 100, DMA50Prev |-> 82,
      DMA200Prev |-> 101, Return1w |-> -5, Return1m |-> -15, Return3m |-> -35,
      MomentumScore |-> 0, RsiIncr |-> 0],
     [Price |-> 0, DMA50 |-> 0, DMA200 |-> 0, DMA50Prev |-> 0,
      DMA200Prev |-> 0, Return1w |-> 0, Return1m |-> 0, Return3m |-> 0,
      MomentumScore |-> 0, RsiIncr |-> 0]}

\* size, liquidity, ownership and the screener's flags
LiquidityLevels ==
    {[MarketCap |-> 20000, AvgVolume |-> 8000000, Volume |-> 13000000,
      PromoterHolding |-> 550, PromoterChange |-> 25, PubHoldingDecr |-> 0,
      BSchklist |-> 8, Accumulation |-> 1, VolumeIncr |-> 1, CyclicalTriggers |-> 1],
     [MarketCap |-> 1500, AvgVolume |-> 200000, Volume |-> 200000,
      PromoterHolding |-> 600, PromoterChange |-> 0, PubHoldingDecr |-> 0,
      BSchklist |-> 6, Accumulation |-> 0, VolumeIncr |-> 0, CyclicalTriggers |-> 0],
     [MarketCap |-> 400, AvgVolume |-> 1000, Volume |-> 200,
      PromoterHolding |-> 850, PromoterChange |-> -60, PubHoldingDecr |-> 1,
      BSchklist |-> 3, Accumulation |-> 0, VolumeIncr |-> 0, CyclicalTriggers |-> 0]}

\* valuation fields
ValuationLevels ==
    {[PE |-> 8, IndustryPE |-> 20, GordanIV |-> 35, Discount1 |-> 45,
      Discount2 |-> 40, GeniScore1 |-> 8, CapacityExpansion |-> 1, Garp |-> 1],
     [PE |-> 20, IndustryPE |-> 20, GordanIV |-> 10, Discount1 |-> 10,
      Discount2 |-> 10, GeniScore1 |-> 5, CapacityExpansion |-> 0, Garp |-> 0],
     [PE |-> 60, IndustryPE |-> 40, GordanIV |-> -5, Discount1 |-> -10,
      Discount2 |-> -5, GeniScore1 |-> 2, CapacityExpansion |-> 0, Garp |-> 0],
     [PE |-> 0, IndustryPE |-> 0, GordanIV |-> 0, Discount1 |-> 0,
      Discount2 |-> 0, GeniScore1 |-> 0, CapacityExpansion |-> 0, Garp |-> 0]}

LayerIndustries == {"Pharmaceuticals", "Residential, Commercial Projects", "Textiles", ""}

\* the stock records the layers are scored on
LayerStocks ==
    {Extend(Extend(Extend(Extend(Extend(p, g), t), l), v),
            [Industry |-> i, Name |-> "Subject"]) :
        p \in ProfitabilityLevels, g \in GrowthLevels, t \in PriceLevels,
        l \in LiquidityLevels, v \in ValuationLevels, i \in LayerIndustries}

\* the other stocks of the universe: what the external layer reads of them
PeerProfiles ==
    {[Industry |-> "Pharmaceuticals", Return3m |-> 30, PE |-> 10],
     [Industry |-> "Pharmaceuticals", Return3m |-> -20, PE |-> 40],
     [Industry |-> "Textiles", Return3m |-> 0, PE |-> 0]}

PeerLists ==
    UNION {[1..n -> PeerProfiles] : n \in 0..MaxPeers}

\* the peers of a list, named by their position
NamedPeers(list) ==
    [i \in 1..Len(list) |-> Extend(list[i], [Name |-> ToString(i)])]

InitLayers ==
    /\ pc = "css_layers"
    /\ caller = "calculateStockScore"
    /\ stocks = <<>>
    /\ scoringResult = Null
    /\ scoredStocks = <<>>
    /\ eligibleStocks = <<>>
    /\ iterations = 0
    /\ includedStocks = <<>>
    /\ portfolioResult = Null
    /\ recommendation = Null
    /\ stock \in LayerStocks
    /\ gateResult = Null
    /\ lowered = Null
    /\ loweredResult = Null
    /\ NoAux

\* the five layer calls of calculateStockScore(stock, allStocks)
CSS_Layers ==
    /\ pc = "css_layers"
    /\ \E peers \in PeerLists :
          LET allStocks == <<stock>> \o NamedPeers(peers)
          IN /\ stocks' = allStocks
             /\ scores' = [risk |-> calculateRiskScore(stock),
                           fundamental |-> calculateFundamentalScore(stock),
                           valuation |-> calculateValuationScore(stock),
                           momentum |-> calculateMomentumScore(stock),
                           external |-> calculateExternalScore(stock, allStocks)]
    /\ pc' = "done"
    /\ UNCHANGED <<caller, scoringResult, recommendation>>
    /\ UNCHANGED <<storeVars, sizingVars, gateVars, marketVars, compareVars, validateVars, aiVars>>

NextLayers == CSS_Layers

SpecLayers == InitLayers /\ [][NextLayers]_vars

-----------------------------------------------------------------------------
(* compareRecommendations (recommendation/engine.js); weights in tenths    *)

\* new Set(recommendation.allocation.stocks.map(s => s.nseCode))
CodeSet(rec) ==
    {rec.allocation.stocks[i].nseCode : i \in DOMAIN rec.allocation.stocks}

\* previous.allocation.stocks.find(s => s.nseCode === code)
FindByCode(list, code) ==
    list[CHOOSE i \in DOMAIN list :
            /\ list[i].nseCode = code
            /\ \A j \in 1..(i - 1) : list[j].nseCode # code]

\* weightChanges.sort((a, b) => Math.abs(b.change) - Math.abs(a.change))
RECURSIVE InsertByAbsChange(_, _)
InsertByAbsChange(s, x) ==
    IF s = <<>> THEN <<x>>
    ELSE IF Abs(Head(s).change) >= Abs(x.change)
         THEN <<Head(s)>> \o InsertByAbsChange(Tail(s), x)
         ELSE <<x>> \o s

RECURSIVE SortByAbsChange(_)
SortByAbsChange(s) ==
    IF s = <<>> THEN <<>>
    ELSE InsertByAbsChange(SortByAbsChange(SubSeq(s, 1, Len(s) - 1)), s[Len(s)])

\* variant: a change of exactly half a point is reported as well
RECURSIVE WeightChangesInclusive(_, _)
WeightChangesInclusive(currentStocks, previousStocks) ==
    IF currentStocks = <<>> THEN <<>>
    ELSE LET st == Head(currentStocks)
             found == st.nseCode \in {previousStocks[i].nseCode : i \in DOMAIN previousStocks}
             prevStock == FindByCode(previousStocks, st.nseCode)
         IN (IF found /\ Abs(st.weight - prevStock.weight) >= 5
             THEN <<[code |-> st.nseCode, name |-> st.name,
                     previousWeight |-> prevStock.weight,
                     currentWeight |-> st.weight,
                     change |-> st.weight - prevStock.weight]>>
             ELSE <<>>)
            \o WeightChangesInclusive(Tail(currentStocks), previousStocks)

\* the loop over current.allocation.stocks that collects the weight changes
RECURSIVE WeightChanges(_, _)
WeightChanges(currentStocks, previousStocks) ==
    IF currentStocks = <<>> THEN <<>>
    ELSE LET st == Head(currentStocks)
             found == st.nseCode \in {previousStocks[i].nseCode : i \in DOMAIN previousStocks}
             prevStock == FindByCode(previousStocks, st.nseCode)
         IN (IF found /\ Abs(st.weight - prevStock.weight) > 5
             THEN <<[code |-> st.nseCode, name |-> st.name,
                     previousWeight |-> prevStock.weight,
                     currentWeight |-> st.weight,
                     change |-> st.weight - prevStock.weight]>>
             ELSE <<>>)
            \o WeightChanges(Tail(currentStocks), previousStocks)

\* variant: without a previous recommendation nothing is reported as new
compareRecommendationsNothingNew(cur, prev) ==
    IF prev = Null
    THEN [changes |-> <<>>, new |-> <<>>, removed |-> <<>>]
    ELSE LET NotInPrevious(st) == st.nseCode \notin CodeSet(prev)
             NotInCurrent(st) == st.nseCode \notin CodeSet(cur)
         IN [new |-> SelectSeq(cur.allocation.stocks, NotInPrevious),
             removed |-> SelectSeq(prev.allocation.stocks, NotInCurrent),
             weightChanges |-> SortByAbsChange(
                 WeightChanges(cur.allocation.stocks, prev.allocation.stocks)),
             marketConditionChange |->
                 IF cur.marketCondition # prev.marketCondition
                 THEN [from |-> prev.marketCondition, to |-> cur.marketCondition]
                 ELSE Null]

compareRecommendations(cur, prev) ==
    IF prev = Null
    THEN [changes |-> <<>>, new |-> cur.allocation.stocks, removed |-> <<>>]
    ELSE LET NotInPrevious(st) == st.nseCode \notin CodeSet(prev)
             NotInCurrent(st) == st.nseCode \notin CodeSet(cur)
         IN [new |-> SelectSeq(cur.allocation.stocks, NotInPrevious),
             removed |-> SelectSeq(prev.allocation.stocks, NotInCurrent),
             weightChanges |-> SortByAbsChange(
                 WeightChanges(cur.allocation.stocks, prev.allocation.stocks)),
             marketConditionChange |->
                 IF cur.marketCondition # prev.marketCondition
                 THEN [from |-> prev.marketCondition, to |-> cur.marketCondition]
                 ELSE Null]

-----------------------------------------------------------------------------
(* The comparison specification: compareRecommendations on a current       *)
(* recommendation and a previous one, or none, over MaxCompare stock codes *)

MaxCompare == 3

CompareCodes == 1..MaxCompare

\* weights of the current and of the previous recommendation, in tenths:
\* the differences are 0, half a point, just over half a point and more
CurrentWeights == {50, 61}

PreviousWeights == {50, 55, 56}

\* the sequences of distinct codes
RECURSIVE Arrangements(_)
Arrangements(codes) ==
    {<<>>} \cup UNION {{<<c>> \o rest : rest \in Arrangements(codes \ {c})} : c \in codes}

\* the ascending sequence of a set of codes
RECURSIVE Ascending(_)
Ascending(codes) ==
    IF codes = {} THEN <<>>
    ELSE LET least == CHOOSE c \in codes : \A d \in codes : c <= d
         IN <<least>> \o Ascending(codes \ {least})

AllocatedStock(code, weight) ==
    [nseCode |-> code, name |-> ToString(code), weight |-> weight]

\* a stored recommendation, as far as compareRecommendations reads it
Recommendation(codes, weightOf, marketCondition) ==
    [allocation |-> [stocks |-> [i \in DOMAIN codes |->
                                    AllocatedStock(codes[i], weightOf[codes[i]])]],
     marketCondition |-> marketCondition]

CurrentRecommendations ==
    {Recommendation(codes, w, c) :
        codes \in Arrangements(CompareCodes),
        w \in [CompareCodes -> CurrentWeights],
        c \in {"NEUTRAL", "BULLISH"}}

PreviousRecommendations ==
    {Recommendation(Ascending(codes), w, "NEUTRAL") :
        codes \in SUBSET CompareCodes,
        w \in [CompareCodes -> PreviousWeights]}

InitCompare ==
    /\ pc = "compare"
    /\ caller = "compareRecommendations"
    /\ stocks = <<>>
    /\ scoringResult = Null
    /\ scoredStocks = <<>>
    /\ eligibleStocks = <<>>
    /\ iterations = 0
    /\ includedStocks = <<>>
    /\ portfolioResult = Null
    /\ recommendation = Null
    /\ NoGate
    /\ NoMarket
    /\ NoLayers
    /\ current \in CurrentRecommendations
    /\ previous \in PreviousRecommendations \cup {Null}
    /\ comparison = Null
    /\ NoValidate
    /\ NoAI
    /\ NoStore

\* compareRecommendations(current, previous)
Compare ==
    /\ pc = "compare"
    /\ comparison' = compareRecommendations(current, previous)
    /\ pc' = "done"
    /\ UNCHANGED <<caller, stocks, scoringResult, recommendation, current, previous>>
    /\ UNCHANGED <<storeVars, sizingVars, gateVars, marketVars, layerVars, validateVars, aiVars>>

NextCompare == Compare

SpecCompare == InitCompare /\ [][NextCompare]_vars

-----------------------------------------------------------------------------
(* The validation specification: validateWeights on allocations of up to   *)
(* MaxValidate stocks whose weights, reported total and sector weights sit *)
(* on and next to the four limits.                                         *)

MaxValidate == 6

\* stock weights in tenths: five of 10.4 sum to 52.0, 13.0 is the stock limit
ValidateWeightLevels == {104, 105, 130, 131}

\* reported totalWeight less the sum of the stock weights, in tenths
TotalWeightOffsets == {0, 10, -11}

\* sectorAllocation lists with no, one and two sectors over 26%
SectorAllocations ==
    {<<[sector |-> "Healthcare", weight |-> 260]>>,
     <<[sector |-> "Healthcare", weight |-> 261]>>,
     <<[sector |-> "Healthcare", weight |-> 270], [sector |-> "IT", weight |-> 261]>>}

\* a result of calculatePortfolioWeights, as far as validateWeights reads it
ValidatedAllocation(weightList, offset, sectors) ==
    LET list == [i \in DOMAIN weightList |->
                    [nseCode |-> i, weight |-> weightList[i]]]
    IN [stocks |-> list,
        totalWeight |-> SumField(list, "weight") + offset,
        cashAllocation |-> 100 * Tenth - (SumField(list, "weight") + offset),
        sectorAllocation |-> sectors]

ValidatedAllocations ==
    {ValidatedAllocation(w, d, sec) :
        w \in UNION {[1..n -> ValidateWeightLevels] : n \in 0..MaxValidate},
        d \in TotalWeightOffsets,
        sec \in SectorAllocations}

InitValidate ==
    /\ pc = "validate"
    /\ caller = "validateWeights"
    /\ stocks = <<>>
    /\ scoringResult = Null
    /\ scoredStocks = <<>>
    /\ eligibleStocks = <<>>
    /\ iterations = 0
    /\ includedStocks = <<>>
    /\ portfolioResult \in ValidatedAllocations
    /\ recommendation = Null
    /\ NoGate
    /\ NoAux

\* validateWeights(portfolioResult)
Validate ==
    /\ pc = "validate"
    /\ validation' = validateWeights(portfolioResult)
    /\ pc' = "done"
    /\ UNCHANGED <<caller, stocks, scoringResult, recommendation>>
    /\ UNCHANGED <<storeVars, sizingVars, gateVars, marketVars, layerVars, compareVars, aiVars>>

NextValidate == Validate

SpecValidate == InitValidate /\ [][NextValidate]_vars

-----------------------------------------------------------------------------
(* generateRecommendation with AI checks (the async variant, part_007).    *)
(* A stock's name is its NSE code; the 1-week and 1-month returns are      *)
(* absent from the records of the model and read as 0.                     *)

MaxAIUniverse == 11

\* what a settled checkAI call resolves with
AIResponses == {[aiScore |-> 90]}

\* let aiScore = 50; if (aiData && aiData.aiScore) { parseInt ... }
ParseAIScore(aiData) == IF aiData.aiScore = 0 THEN 50 ELSE aiData.aiScore

\* stocks.slice(0, 20).map(...), the return taken from the input record
getTopPicks20(allocated, universe) ==
    LET top == TakeFirst(allocated, 20)
    IN [i \in DOMAIN top |->
           [name |-> top[i].nseCode, code |-> top[i].nseCode, weight |-> top[i].weight,
            industry |-> top[i].industry, compositeScore |-> top[i].compositeScore,
            recommendation |-> top[i].recommendation,
            return1w |-> 0, return1m |-> 0,
            return3m |-> universe[top[i].nseCode].Return3m,
            strengths |-> getStrengths(top[i]), risks |-> getRisks(top[i]),
            scoreBreakdown |-> [safety |-> top[i].scores.risk,
                                fundamental |-> top[i].scores.fundamental,
                                valuation |-> top[i].scores.valuation,
                                momentum |-> top[i].scores.momentum,
                                external |-> top[i].scores.external]]]

\* the try branch: composite = Math.round(oldScore * 0.8 + aiScore * 0.2)
EnhancedPick(pick, aiData) ==
    LET aiScore == ParseAIScore(aiData)
        oldScore == OrElse(pick.compositeScore, 50)
    IN Extend(pick, [aiScore |-> aiScore,
                     compositeScore |-> RoundDiv(8 * oldScore + 2 * aiScore, 10),
                     scoreBreakdown |-> Extend(pick.scoreBreakdown, [ai |-> aiScore])])

\* variant: a failed check leaves the score of a pick at 0
FailedPickZero(pick) ==
    Extend(pick, [aiScore |-> 0,
                  scoreBreakdown |-> Extend(pick.scoreBreakdown, [ai |-> 0])])

\* the catch branch: the pick is kept with the default AI score
FailedPick(pick) ==
    Extend(pick, [aiScore |-> 50,
                  scoreBreakdown |-> Extend(pick.scoreBreakdown, [ai |-> 50])])

\* calculatePrediction: the prediction score of the 5-factor model
PredictionScore(fundamental, safety, valuation, momentum, aiScore, r3m, r1m, r1w) ==
    LET meanReversionScore ==
            IF fundamental >= 70 /\ r3m < -15 THEN 95
            ELSE IF fundamental >= 70 /\ r3m < -10 THEN 85
            ELSE IF fundamental >= 60 /\ r3m < -5 THEN 70
            ELSE IF fundamental >= 50 /\ r3m < 0 THEN 55
            ELSE IF r3m > 20 THEN 35
            ELSE 45
        confirmed == IF r1w > 0 /\ r1m > 0 /\ r3m > 0
                     THEN Min(100, momentum + 10) ELSE momentum
        trendScore == IF r1w < -3 /\ r1m > 0
                      THEN Max(0, confirmed - 10) ELSE confirmed
    IN RoundDiv(20 * meanReversionScore + 25 * trendScore
                + 10 * (fundamental + safety) + 15 * valuation + 20 * aiScore, 100)

\* calculatePrediction on an allocated stock (nested scores, no aiScore)
StockForecast(st, universe) ==
    [code |-> st.nseCode,
     predictionScore |->
         PredictionScore(OrElse(st.scores.fundamental, 50), OrElse(st.scores.risk, 50),
                         OrElse(st.scores.valuation, 50), OrElse(st.scores.momentum, 50),
                         50, universe[st.nseCode].Return3m, 0, 0),
     aiScore |-> 50]

\* calculatePrediction on a top pick (scoreBreakdown and aiScore)
PickForecast(pick) ==
    [code |-> pick.code,
     predictionScore |->
         PredictionScore(OrElse(pick.scoreBreakdown.fundamental, 50),
                         OrElse(pick.scoreBreakdown.safety, 50),
                         OrElse(pick.scoreBreakdown.valuation, 50),
                         OrElse(pick.scoreBreakdown.momentum, 50),
                         OrElse(pick.aiScore, 50),
                         pick.return3m, pick.return1m, pick.return1w),
     aiScore |-> OrElse(pick.aiScore, 50)]

\* [...allForecasts].sort((a, b) => a.predictionScore - b.predictionScore)
RECURSIVE InsertAscByPrediction(_, _)
InsertAscByPrediction(s, x) ==
    IF s = <<>> THEN <<x>>
    ELSE IF Head(s).predictionScore <= x.predictionScore
         THEN <<Head(s)>> \o InsertAscByPrediction(Tail(s), x)
         ELSE <<x>> \o s

RECURSIVE SortAscByPrediction(_)
SortAscByPrediction(s) ==
    IF s = <<>> THEN <<>>
    ELSE InsertAscByPrediction(SortAscByPrediction(SubSeq(s, 1, Len(s) - 1)), s[Len(s)])

calculateReturnForecast(allStocks, picks, universe) ==
    LET allForecasts == [i \in DOMAIN allStocks |-> StockForecast(allStocks[i], universe)]
        riskAlerts == TakeFirst(SortAscByPrediction(allForecasts), 10)
        riskAlertCodes == {riskAlerts[i].code : i \in DOMAIN riskAlerts}
        kept == FilterSeq(picks, {q \in Range(picks) : q.code \notin riskAlertCodes})
        topForecasts == [i \in DOMAIN kept |-> PickForecast(kept[i])]
    IN [topPredictions |-> SortDescBy(topForecasts, "predictionScore"),
        riskAlerts |-> riskAlerts]

\* portfolioResult.stocks.map(s => enhanced ? {...s, compositeScore, aiScore} : s)
WithAIScores(allocated, filteredTopPicks) ==
    [i \in DOMAIN allocated |->
        IF \E q \in Range(filteredTopPicks) : q.code = allocated[i].nseCode
        THEN LET enhanced == CHOOSE q \in Range(filteredTopPicks) :
                                q.code = allocated[i].nseCode
             IN Extend(allocated[i], [compositeScore |-> enhanced.compositeScore,
                                      aiScore |-> enhanced.aiScore])
        ELSE allocated[i]]

\* variant: the picks are published as they are
UnfilteredTopPicks(picks, riskAlerts) ==
    picks

\* step 8: topPicks.filter(pick => !riskAlertCodes.has(pick.code))
FilteredTopPicks(picks, riskAlerts) ==
    LET riskAlertCodes == {riskAlerts[i].code : i \in DOMAIN riskAlerts}
    IN FilterSeq(picks, {q \in Range(picks) : q.code \notin riskAlertCodes})

\* steps 7-9: forecast, risk-alert filter and the recommendation object
BuildRecommendationAI(in, scoring, portfolio, checked, picks) ==
    LET returnForecast == calculateReturnForecast(portfolio.stocks, picks, in)
        filteredTopPicks == FilteredTopPicks(picks, returnForecast.riskAlerts)
    IN [marketCondition |-> scoring.marketCondition,
        summary |-> [totalAnalyzed |-> Len(in),
                     passedGates |-> Len(scoring.passed),
                     failedGates |-> Len(scoring.failed),
                     recommendedStocks |-> Len(portfolio.stocks)],
        allocation |-> [stocks |-> WithAIScores(portfolio.stocks, filteredTopPicks),
                        totalEquity |-> portfolio.totalWeight,
                        cash |-> portfolio.cashAllocation,
                        sectorBreakdown |-> portfolio.sectorAllocation],
        topPicks |-> filteredTopPicks,
        returnForecast |-> returnForecast,
        excluded |-> [count |-> Len(scoring.failed)],
        validation |-> checked]

\* the profiles of the universes, repeated in this order
AIProfileCycle == <<"star", "steady", "builder">>

AIUniverse(n) ==
    Universe([i \in 1..n |-> AIProfileCycle[((i - 1) % Len(AIProfileCycle)) + 1]])

InitAI ==
    /\ pc = "gr_score"
    /\ caller = "generateRecommendationAI"
    /\ stocks \in {AIUniverse(n) : n \in 0..MaxAIUniverse}
    /\ scoringResult = Null
    /\ scoredStocks = <<>>
    /\ eligibleStocks = <<>>
    /\ iterations = 0
    /\ includedStocks = <<>>
    /\ portfolioResult = Null
    /\ recommendation = Null
    /\ NoGate
    /\ NoAux

\* steps 4-5: validateWeights and the initial top picks
AI_TopPicks ==
    /\ pc = "ai_picks"
    /\ validation' = validateWeights(portfolioResult)
    /\ topPicks' = getTopPicks20(portfolioResult.stocks, stocks)
    /\ enhancedPicks' = <<>>
    /\ pc' = "ai_check"
    /\ UNCHANGED <<caller, stocks, scoringResult, recommendation, aiFailed>>
    /\ UNCHANGED <<storeVars, sizingVars, gateVars, marketVars, layerVars, compareVars>>

\* one pass of the loop: await checkAI(pick.name, pick.industry) resolves
AI_Resolve ==
    /\ pc = "ai_check"
    /\ Len(enhancedPicks) < Len(topPicks)
    /\ \E aiData \in AIResponses :
          enhancedPicks' = Append(enhancedPicks,
                                  EnhancedPick(topPicks[Len(enhancedPicks) + 1], aiData))
    /\ UNCHANGED <<pc, caller, stocks, scoringResult, recommendation, topPicks,
                   aiFailed, validation>>
    /\ UNCHANGED <<storeVars, sizingVars, gateVars, marketVars, layerVars, compareVars>>

\* one pass of the loop: checkAI rejects and the catch branch runs
AI_Reject ==
    /\ pc = "ai_check"
    /\ Len(enhancedPicks) < Len(topPicks)
    /\ enhancedPicks' = Append(enhancedPicks, FailedPick(topPicks[Len(enhancedPicks) + 1]))
    /\ aiFailed' = aiFailed \cup {topPicks[Len(enhancedPicks) + 1].code}
    /\ UNCHANGED <<pc, caller, stocks, scoringResult, recommendation, topPicks,
                   validation>>
    /\ UNCHANGED <<storeVars, sizingVars, gateVars, marketVars, layerVars, compareVars>>

\* after the loop: re-sort and build the recommendation
AI_Assemble ==
    /\ pc = "ai_check"
    /\ Len(enhancedPicks) = Len(topPicks)
    /\ topPicks' = SortDescBy(enhancedPicks, "compositeScore")
    /\ recommendation' = BuildRecommendationAI(stocks, scoringResult, portfolioResult,
                                               validation,
                                               SortDescBy(enhancedPicks, "compositeScore"))
    /\ pc' = "done"
    /\ UNCHANGED <<caller, stocks, scoringResult, enhancedPicks, aiFailed, validation>>
    /\ UNCHANGED <<storeVars, sizingVars, gateVars, marketVars, layerVars, compareVars>>

NextAI ==
    \/ GR_Score
    \/ CalculatePortfolioWeights
    \/ AI_TopPicks
    \/ AI_Resolve
    \/ AI_Reject
    \/ AI_Assemble

SpecAI == InitAI /\ [][NextAI]_vars

\* the steps the process itself takes: Node's event loop runs each of them once
\* it is ready; a settlement of the checkAI promise is the service's step and
\* nothing in checkAI (no timeout on the https request) forces it
AIProgramSteps ==
    /\ WF_vars(GR_Score)
    /\ WF_vars(CalculatePortfolioWeights)
    /\ WF_vars(AI_TopPicks)
    /\ WF_vars(AI_Assemble)

\* the universes of the runs followed under fairness hold up to this many stocks
MaxAwaitUniverse == 2

\* the profiles of those universes: two that pass the gates, one that fails
AwaitProfiles == {"star", "builder", "unprofitable"}

InitAIFair ==
    /\ pc = "gr_score"
    /\ caller = "generateRecommendationAI"
    /\ stocks \in {Universe(names) : names \in UNION {[1..n -> AwaitProfiles] : n \in 0..MaxAwaitUniverse}}
    /\ scoringResult = Null
    /\ scoredStocks = <<>>
    /\ eligibleStocks = <<>>
    /\ iterations = 0
    /\ includedStocks = <<>>
    /\ portfolioResult = Null
    /\ recommendation = Null
    /\ NoGate
    /\ NoAux

SpecAIFair == InitAIFair /\ [][NextAI]_vars /\ AIProgramSteps

-----------------------------------------------------------------------------
(* generateRecommendation on universes large enough to leave gate-passing  *)
(* stocks out of the allocation                                            *)

\* largest universe of these runs
MaxWatchUniverse == 49

\* the profiles of these universes, repeated in this order
WatchProfileCycle == <<"star", "steady", "builder", "star", "steady", "dull", "unprofitable">>

\* their industries, one per sector group, repeated in this order
WatchIndustryCycle ==
    <<"Pharmaceuticals", "Software Products", "Civil Construction",
      "Financial Institution", "Textiles">>

WatchUniverse(n) ==
    [i \in 1..n |->
        Extend(StockProfiles[WatchProfileCycle[((i - 1) % Len(WatchProfileCycle)) + 1]],
               [NSECode |-> i,
                Industry |-> WatchIndustryCycle[((i - 1) % Len(WatchIndustryCycle)) + 1]])]

InitWatch ==
    /\ pc = "gr_score"
    /\ caller = "generateRecommendation"
    /\ stocks \in {WatchUniverse(n) : n \in 0..MaxWatchUniverse}
    /\ scoringResult = Null
    /\ scoredStocks = <<>>
    /\ eligibleStocks = <<>>
    /\ iterations = 0
    /\ includedStocks = <<>>
    /\ portfolioResult = Null
    /\ recommendation = Null
    /\ NoGate
    /\ NoAux

SpecWatch == InitWatch /\ [][Next]_vars

-----------------------------------------------------------------------------
(* Persistence layer (db.js): saveRecommendation and the two readers.      *)
(* A record carries the fields the layer reads: id, weekId, timestamp and  *)
(* allocation.stocks.  The wall clock gives each save its own timestamp.   *)

\* weeks the wall clock runs through
MaxWeeks == 54

\* saves allowed for a week that has been saved before
MaxResaves == 1

\* filtered.slice(0, 52)
retainedWeeks == 52

\* history.slice(-1000)
retainedHistory == 1000

\* recommendations.filter(r => r.weekId !== recommendation.weekId)
OtherWeeks(list, weekId) ==
    LET keep[i \in 0..Len(list)] ==
            IF i = 0 THEN <<>>
            ELSE IF list[i].weekId # weekId THEN Append(keep[i - 1], list[i])
            ELSE keep[i - 1]
    IN keep[Len(list)]

\* variant: the record of the same week is left in the file
SavedRecommendationsKeepWeek(list, saved) == TakeFirst(<<saved>> \o list, retainedWeeks)

\* filter, unshift, slice(0, 52): the new content of recommendations.json
SavedRecommendations(list, saved) ==
    TakeFirst(<<saved>> \o OtherWeeks(list, saved.weekId), retainedWeeks)

\* one history entry per allocated stock of the saved recommendation
HistoryEntries(saved) ==
    [i \in DOMAIN saved.allocation.stocks |->
        [recommendationId |-> saved.id, weekId |-> saved.weekId,
         timestamp |-> saved.timestamp,
         stockCode |-> saved.allocation.stocks[i].nseCode,
         stockName |-> saved.allocation.stocks[i].name,
         weight |-> saved.allocation.stocks[i].weight,
         compositeScore |-> saved.allocation.stocks[i].compositeScore,
         recommendation |-> saved.allocation.stocks[i].recommendation,
         priceAtRecommendation |-> saved.allocation.stocks[i].currentPrice]]

\* history.push(...) for each stock, then history.slice(-1000)
SavedHistory(history, saved) ==
    LET all == history \o HistoryEntries(saved)
    IN SubSeq(all, Max(1, Len(all) - retainedHistory + 1), Len(all))

\* recommendations.length > 0 ? recommendations[0] : null
getLatestRecommendation(list) == IF Len(list) > 0 THEN list[1] ELSE Null

\* recommendations.find(r => r.weekId === weekId) || null
getRecommendationByWeek(list, weekId) ==
    IF \E i \in DOMAIN list : list[i].weekId = weekId
    THEN list[CHOOSE i \in DOMAIN list :
                  /\ list[i].weekId = weekId
                  /\ \A j \in 1..(i - 1) : list[j].weekId # weekId]
    ELSE Null

\* the recommendation generated in week w at time t (id: `rec_${weekId}`)
SavedRecord(w, t) ==
    [id |-> w, weekId |-> w, timestamp |-> t,
     allocation |-> [stocks |-> <<[nseCode |-> 1, name |-> 1, weight |-> 50,
                                   compositeScore |-> 70, recommendation |-> "BUY",
                                   currentPrice |-> 100 + t]>>]]

InitStore ==
    /\ pc = "store"
    /\ caller = "saveRecommendation"
    /\ stocks = <<>>
    /\ scoringResult = Null
    /\ scoredStocks = <<>>
    /\ eligibleStocks = <<>>
    /\ iterations = 0
    /\ includedStocks = <<>>
    /\ portfolioResult = Null
    /\ recommendation = Null
    /\ NoGate
    /\ NoAux

\* saveRecommendation(recommendation) for the running week or, again, for
\* the first week
SaveRecommendation ==
    /\ pc = "store"
    /\ \E w \in {thisWeek, 1} :
          LET saved == SavedRecord(w, clock + 1)
          IN /\ resaves' = IF w \in DOMAIN savedByWeek THEN resaves + 1 ELSE resaves
             /\ resaves' <= MaxResaves
             /\ savedFile' = SavedRecommendations(savedFile, saved)
             /\ historyFile' = SavedHistory(historyFile, saved)
             /\ savedByWeek' = [x \in (DOMAIN savedByWeek) \cup {w} |->
                                  IF x = w THEN saved ELSE savedByWeek[x]]
             /\ clock' = clock + 1
    /\ UNCHANGED <<pc, caller, stocks, scoringResult, recommendation, thisWeek>>
    /\ UNCHANGED <<sizingVars, gateVars, marketVars, layerVars, compareVars,
                   validateVars, aiVars>>

\* a week passes between two weekly runs
WeekPasses ==
    /\ pc = "store"
    /\ thisWeek < MaxWeeks
    /\ thisWeek \in DOMAIN savedByWeek
    /\ thisWeek' = thisWeek + 1
    /\ UNCHANGED <<pc, caller, stocks, scoringResult, recommendation, savedFile,
                   historyFile, clock, resaves, savedByWeek>>
    /\ UNCHANGED <<sizingVars, gateVars, marketVars, layerVars, compareVars,
                   validateVars, aiVars>>

NextStore ==
    \/ SaveRecommendation
    \/ WeekPasses

SpecStore == InitStore /\ [][NextStore]_vars

-----------------------------------------------------------------------------
(* Properties of calculatePortfolioWeights, checked under SpecSizing       *)

Returned == portfolioResult # Null

FinalWeightSum == SumField(portfolioResult.stocks, "weight")

NoneEligible ==
    \A i \in DOMAIN scoredStocks :
        ~(scoredStocks[i].passed /\ scoredStocks[i].compositeScore >= 45)

\* C1: in every returned allocation the final weights plus cashAllocation
\* are within 0.1 of 100.
C1_WeightsPlusCash ==
    Returned => Abs(FinalWeightSum + portfolioResult.cashAllocation - 100 * Tenth) <= 1

\* an allocation of several stocks whose total stayed one tenth off the target
C1_Witness ==
    /\ Returned
    /\ Len(portfolioResult.stocks) >= 2
    /\ portfolioResult.totalWeight # targetEquityAllocation * Tenth

\* C2: when at least one stock survives the minimum-weight pruning, the sum
\* of the final weights and the reported totalWeight are within 0.1 of
\* targetEquityAllocation.
C2_EquityOnTarget ==
    (Returned /\ Len(portfolioResult.stocks) > 0) =>
        /\ Abs(FinalWeightSum - targetEquityAllocation * Tenth) <= 1
        /\ Abs(portfolioResult.totalWeight - targetEquityAllocation * Tenth) <= 1

\* pruning removed some stocks and others survived
C2_Witness ==
    /\ pc = "done"
    /\ Returned
    /\ Len(portfolioResult.stocks) > 0
    /\ "excludedCount" \in DOMAIN portfolioResult
    /\ portfolioResult.excludedCount > 0

\* C3: every returned stock's final weight is at most its dynamic per-stock
\* cap (12 / 10 / 8 / 5 by safety score).
C3_WithinDynamicCap ==
    Returned =>
        \A i \in DOMAIN portfolioResult.stocks :
            portfolioResult.stocks[i].weight <=
                (IF portfolioResult.stocks[i].scores.risk >= 75 THEN 12
                 ELSE IF portfolioResult.stocks[i].scores.risk >= 65 THEN 10
                 ELSE IF portfolioResult.stocks[i].scores.risk >= 55 THEN 8
                 ELSE 5) * Tenth

\* C4: no entry of sectorAllocation exceeds maxPerSector by more than one
\* point (26 with the default cap).
C4_SectorWithinCap ==
    Returned =>
        \A i \in DOMAIN portfolioResult.sectorAllocation :
            portfolioResult.sectorAllocation[i].weight <= (maxPerSector + 1) * Tenth

\* C5: the five largest final weights sum to at most maxTop5, up to the
\* rounding of five weights to one decimal and the residual adjustment
\* (half a point in total).
C5_Top5WithinCap ==
    Returned =>
        SumField(TakeFirst(portfolioResult.stocks, 5), "weight") <= maxTop5 * Tenth + 5

\* C6: when no input stock is eligible the call returns at its first step
\* with zero stocks, totalWeight 0, cashAllocation 100 and an empty
\* sectorAllocation.
C6_EmptyAllocation ==
    NoneEligible =>
        \/ pc = "cpw_filter" /\ ~Returned
        \/ /\ pc = "done"
           /\ Returned
           /\ portfolioResult.stocks = <<>>
           /\ portfolioResult.totalWeight = 0
           /\ portfolioResult.cashAllocation = 100 * Tenth
           /\ portfolioResult.sectorAllocation = <<>>

\* a non-empty input without any eligible stock has been answered
C6_Witness ==
    /\ pc = "done"
    /\ Len(scoredStocks) > 0
    /\ NoneEligible
    /\ Returned
    /\ portfolioResult.cashAllocation = 100 * Tenth

-----------------------------------------------------------------------------
(* Properties of scoring and of generateRecommendation, checked under Spec *)

\* positions (NSE codes) of the input stocks with at least one hard failure
GateFailed == {i \in DOMAIN stocks : Len(checkQualityGates(stocks[i]).failures) >= 1}

Codes(seq, f) == {seq[i][f] : i \in DOMAIN seq}

\* C7: a stock with at least one hard gate failure is returned with
\* passed=false, scores=null, compositeScore=0, recommendation EXCLUDED and
\* the gate's failure list, and is not among the scored (passed) stocks.
C7_FailedNeverScored ==
    scoringResult # Null =>
        \A i \in GateFailed :
            /\ \E j \in DOMAIN scoringResult.failed :
                  /\ scoringResult.failed[j].nseCode = i
                  /\ scoringResult.failed[j].passed = FALSE
                  /\ scoringResult.failed[j].scores = Null
                  /\ scoringResult.failed[j].compositeScore = 0
                  /\ scoringResult.failed[j].recommendation = "EXCLUDED"
                  /\ scoringResult.failed[j].gateResult.failures =
                         checkQualityGates(stocks[i]).failures
            /\ i \notin Codes(scoringResult.passed, "nseCode")

\* a universe with both a failing and a passing stock has been scored
C7_Witness ==
    /\ scoringResult # Null
    /\ GateFailed # {}
    /\ Len(scoringResult.passed) >= 1
    /\ \E j \in DOMAIN scoringResult.failed :
          Len(scoringResult.failed[j].gateResult.failures) >= 2

\* C8: in a recommendation, a stock that failed the quality gate is in none
\* of allocation.stocks, topPicks and watchlist; it is counted in excluded.
C8_FailedOnlyExcluded ==
    recommendation # Null =>
        /\ \A i \in GateFailed :
              /\ i \notin Codes(recommendation.allocation.stocks, "nseCode")
              /\ i \notin Codes(recommendation.topPicks, "code")
              /\ i \notin Codes(recommendation.watchlist, "code")
        /\ recommendation.excluded.count = Cardinality(GateFailed)

\* a recommendation with allocated stocks built from a universe with a
\* failing stock
C8_Witness ==
    /\ recommendation # Null
    /\ GateFailed # {}
    /\ Len(recommendation.allocation.stocks) >= 1
    /\ Len(recommendation.topPicks) >= 1

\* the label the thresholds give for a reported score and safety score
LabelOf(compositeScore, safetyScore) ==
    IF compositeScore >= 70 /\ safetyScore >= 60 THEN "STRONG BUY"
    ELSE IF compositeScore >= 60 /\ safetyScore >= 50 THEN "BUY"
    ELSE IF compositeScore >= 50 THEN "ACCUMULATE"
    ELSE IF compositeScore >= 40 THEN "HOLD"
    ELSE "WATCH"

\* C11: for every gate-passing stock the recommendation label is the one
\* the thresholds give for the compositeScore and the safety score reported
\* in the same result.
C11_LabelMatchesReported ==
    scoringResult # Null =>
        \A i \in DOMAIN scoringResult.passed :
            scoringResult.passed[i].recommendation =
                LabelOf(scoringResult.passed[i].compositeScore,
                        scoringResult.passed[i].scores.risk)

\* C12: scoreAllStocks returns the gate-passing stocks by compositeScore
\* descending, and passing stocks with equal compositeScore keep their
\* relative order of the input list (the NSE code of a stock of the model is
\* its position in the input).
C12_SortedAndStable ==
    scoringResult # Null =>
        /\ Codes(scoringResult.passed, "nseCode") =
               {i \in DOMAIN stocks : checkQualityGates(stocks[i]).passed}
        /\ \A i, j \in DOMAIN scoringResult.passed :
              i < j =>
                 /\ scoringResult.passed[i].compositeScore
                        >= scoringResult.passed[j].compositeScore
                 /\ scoringResult.passed[i].compositeScore
                        = scoringResult.passed[j].compositeScore
                      => scoringResult.passed[i].nseCode < scoringResult.passed[j].nseCode

\* the sort moved a later stock forward and left two equal scores in input order
C12_Witness ==
    /\ scoringResult # Null
    /\ \E i, j \in DOMAIN scoringResult.passed :
          /\ i < j
          /\ scoringResult.passed[i].nseCode > scoringResult.passed[j].nseCode
    /\ \E i, j \in DOMAIN scoringResult.passed :
          /\ i < j
          /\ scoringResult.passed[i].compositeScore = scoringResult.passed[j].compositeScore

-----------------------------------------------------------------------------
(* Properties of market detection and weight tables, checked under         *)
(* SpecMarket                                                              *)

PositiveCount == Cardinality({i \in DOMAIN stocks : stocks[i].Return3m > 0})

ReturnSum == SumField(stocks, "Return3m")

WeightSum(w) == w.safety + w.fundamental + w.valuation + w.momentum + w.external

\* C14: the five weights of every table sum to 1.0 (100 percent), an
\* unrecognised condition gets the NEUTRAL table, the composite score of
\* every gate-passing stock lies in [0,100], and all stocks of one
\* scoreAllStocks run carry the same condition and weight table.
C14_WeightsSumToOne ==
    /\ pc = "done" =>
          /\ WeightSum(dynamicWeights) = 100
          /\ condition \notin {"BULLISH", "BEARISH"} =>
                 dynamicWeights = [safety |-> 30, fundamental |-> 25, valuation |-> 20,
                                   momentum |-> 15, external |-> 10]
    /\ scoringResult # Null =>
          \A i \in DOMAIN scoringResult.passed :
              /\ scoringResult.passed[i].compositeScore \in 0..100
              /\ WeightSum(scoringResult.passed[i].weights) = 100
              /\ scoringResult.passed[i].marketCondition = scoringResult.marketCondition
              /\ scoringResult.passed[i].weights = scoringResult.passed[1].weights

\* a stock was scored under an unrecognised condition, and a BULLISH run
\* scored stocks at both ends of the scale
C14_Witness ==
    /\ pc = "done"
    /\ condition = "SIDEWAYS"
    /\ scoringResult.marketCondition = "BULLISH"
    /\ \E i, j \in DOMAIN scoringResult.passed :
          /\ scoringResult.passed[i].compositeScore = 100
          /\ scoringResult.passed[j].compositeScore = 0

-----------------------------------------------------------------------------
(* Properties of checkQualityGates, checked under SpecGate                 *)

\* the three profitability checks as the rule states them, in tenths
RuleChecks(s) ==
    << s.ROCE >= 10 * getROCEThreshold(IndustryOrDefault(s)),
       s.AvgROCE3Y >= 8 * getROCEThreshold(IndustryOrDefault(s)),
       s.ROCE >= s.AvgROCE3Y >>

\* C9: passed is true exactly when at least 2 of the 3 profitability checks
\* hold, promoter holding is 0 or at least 26, and market capitalisation is
\* at least 300; warnings have no influence.
C9_PassedIffRules ==
    gateResult # Null =>
        (gateResult.passed <=>
            /\ PassedCount(RuleChecks(stock)) >= 2
            /\ (stock.PromoterHolding = 0 \/ stock.PromoterHolding >= 260)
            /\ stock.MarketCap >= 300)

\* C10: lowering 'Return on capital employed' alone never increases the
\* number of profitability checks passed, so a stock that fails the
\* profitability gate still fails it with the lower ROCE.
C10_MonotoneInROCE ==
    loweredResult # Null =>
        /\ PassedCount(loweredResult.profitabilityDetails)
              <= PassedCount(gateResult.profitabilityDetails)
        /\ "Profitability" \in Range(gateResult.failures)
              => "Profitability" \in Range(loweredResult.failures)

\* a stock that passed the profitability gate fails it once its ROCE is lowered
C10_Witness ==
    /\ loweredResult # Null
    /\ lowered.ROCE < stock.ROCE
    /\ "Profitability" \notin Range(gateResult.failures)
    /\ "Profitability" \in Range(loweredResult.failures)


-----------------------------------------------------------------------------
(* Properties of the scoring layers, checked under SpecLayers              *)

\* the values of a record of component scores
ComponentScores(components) == {components[k] : k \in DOMAIN components}

LayerNames == {"risk", "fundamental", "valuation", "momentum", "external"}

\* C15: every sub-component score and every top-level score of the Risk,
\* Fundamental, Valuation, Momentum and External layers lies in [0, 100]
\* (the risk score is held in hundredths of a point).
C15_LayerScoresInRange ==
    scores # Null =>
        /\ scores.risk.score \in 0..(100 * 100)
        /\ \A l \in LayerNames \ {"risk"} : scores[l].score \in 0..100
        /\ \A l \in LayerNames :
              \A x \in ComponentScores(scores[l].components) : x \in 0..100

\* a stock whose catalyst bonuses add up to more than 100 has been scored,
\* with its earnings power and its risk score at the upper end as well
C15_Witness ==
    /\ scores # Null
    /\ CatalystPoints(stock) > 100
    /\ scores.valuation.components.catalystScore = 100
    /\ scores.fundamental.components.earningsPower = 100
    /\ scores.risk.score = 100 * 100

\* C16: the risk score is the 0.35 / 0.25 / 0.15 / 0.15 / 0.10 weighted sum
\* of the fundamental, volatility, liquidity, governance and concentration
\* components less a tail penalty of half the shortfall of the worst
\* component below 30, clamped to [0, 100]; all components at 100 give
\* penalty 0 and score 100.
C16_RiskScoreFormula ==
    scores # Null =>
        LET c == scores.risk.components
            worst == CHOOSE x \in ComponentScores(c) :
                        \A y \in ComponentScores(c) : x <= y
            penalty == IF worst < 30 THEN (30 - worst) * 50 ELSE 0
            linear == 35 * c.fundamentalRisk + 25 * c.volatilityRisk
                      + 15 * c.liquidityRisk + 15 * c.governanceRisk
                      + 10 * c.concentrationRisk
        IN /\ scores.risk.tailRiskPenalty = penalty
           /\ scores.risk.score = Max(0, Min(10000, linear - penalty))
           /\ ComponentScores(c) = {100} =>
                 scores.risk.tailRiskPenalty = 0 /\ scores.risk.score = 10000

\* a stock whose worst risk component is below 30 has been scored
C16_Witness ==
    /\ scores # Null
    /\ scores.risk.components.fundamentalRisk = 25
    /\ scores.risk.tailRiskPenalty = 250

-----------------------------------------------------------------------------
(* Properties of compareRecommendations, checked under SpecCompare         *)

\* the entry of a list of allocated stocks with a given code
WeightOfCode(list, code) ==
    (CHOOSE st \in Range(list) : st.nseCode = code).weight

\* C17: compareRecommendations(current, null) returns every stock of
\* current.allocation.stocks in its 'new' list and an empty 'removed' list.
C17_NoPreviousAllNew ==
    (comparison # Null /\ previous = Null) =>
        /\ comparison.new = current.allocation.stocks
        /\ comparison.removed = <<>>

\* a recommendation of several stocks has been compared with no previous one
C17_Witness ==
    /\ comparison # Null
    /\ previous = Null
    /\ Len(current.allocation.stocks) >= 2
    /\ Len(comparison.new) >= 2

-----------------------------------------------------------------------------
(* Properties of validateWeights, checked under SpecValidate               *)

\* 1 for a violated rule, 0 otherwise
Count(violated) == IF violated THEN 1 ELSE 0

-----------------------------------------------------------------------------
(* Properties of generateRecommendation with AI checks, under SpecAI       *)

\* code and weight of each allocated stock, in order
WeightsOf(list) == [i \in DOMAIN list |-> <<list[i].nseCode, list[i].weight>>]

\* the positions of the call from which a step is always possible
AIPositions ==
    {"gr_score", "cpw_filter", "cpw_weights", "cpw_top5", "cpw_normalize",
     "cpw_return", "ai_picks", "ai_check"}

\* the call is at its end or can take a step, and in the loop every pick
\* handled so far, rejected or not, has been pushed to enhancedPicks
AICallProceeds ==
    /\ pc \in AIPositions \cup {"cpw_sector", "done"}
    /\ pc = "cpw_sector" => iterations < maxIterations
    /\ pc \in {"ai_check", "done"} =>
          /\ Len(enhancedPicks) <= Len(topPicks)
          /\ aiFailed \subseteq {enhancedPicks[i].code : i \in DOMAIN enhancedPicks}
          /\ pc = "ai_check" =>
                \A i \in DOMAIN enhancedPicks : enhancedPicks[i].code = topPicks[i].code

\* the run has returned and every pick whose check was rejected carries the
\* AI score 50, and the allocation is the one computed before the checks
AIFailuresAbsorbed ==
    pc = "done" =>
        /\ recommendation # Null
        /\ Len(topPicks) = Len(enhancedPicks)
        /\ Len(topPicks) = Min(20, Len(portfolioResult.stocks))
        /\ \A q \in Range(topPicks) \cup Range(recommendation.topPicks) :
              q.code \in aiFailed => q.aiScore = 50 /\ q.scoreBreakdown.ai = 50
        /\ \A st \in Range(recommendation.allocation.stocks) :
              (st.nseCode \in aiFailed /\ "aiScore" \in DOMAIN st) => st.aiScore = 50
        /\ WeightsOf(recommendation.allocation.stocks) = WeightsOf(portfolioResult.stocks)
        /\ recommendation.allocation.totalEquity = portfolioResult.totalWeight
        /\ recommendation.allocation.cash = portfolioResult.cashAllocation
        /\ recommendation.allocation.sectorBreakdown = portfolioResult.sectorAllocation
        /\ recommendation.validation = validateWeights(portfolioResult)

\* C20: whichever of the top picks' AI checks are rejected, the call goes on
\* and returns a complete recommendation, every affected pick carries the
\* default AI score 50, and weights, cash and sector breakdown of the
\* allocation are those computed before the first AI check, hence the same
\* as in a run without a failed check.
C20_AIFailureTolerated ==
    /\ [](AICallProceeds /\ AIFailuresAbsorbed)
    /\ [][(pc \in {"ai_picks", "ai_check"}) => (portfolioResult' = portfolioResult)]_vars

\* a run has returned in which some checks were rejected and others were
\* not, and a pick with a rejected check is among the top picks and the
\* allocated stocks of the recommendation
C20_Witness ==
    /\ pc = "done"
    /\ caller = "generateRecommendationAI"
    /\ aiFailed # {}
    /\ \E q \in Range(topPicks) : q.code \notin aiFailed /\ q.aiScore = 90
    /\ \E q \in Range(recommendation.topPicks) : q.code \in aiFailed
    /\ \E st \in Range(recommendation.allocation.stocks) :
          st.nseCode \in aiFailed /\ "aiScore" \in DOMAIN st

-----------------------------------------------------------------------------
(* Properties of the asynchronous generateRecommendation under fairness of *)
(* the event loop, checked under SpecAIFair                                *)

\* C21: under fairness of the event loop generateRecommendation eventually
\* returns a recommendation, whatever the external service does, a checkAI
\* call that never responds included
C21_EventuallyReturns == <>(pc = "done" /\ recommendation # Null)

-----------------------------------------------------------------------------
(* Properties of the persistence layer, checked under SpecStore            *)

\* the weekIds saved so far whose latest save is among the retainedWeeks
\* most recent of these latest saves
RetainedWeekIds ==
    {w \in DOMAIN savedByWeek :
        Cardinality({x \in DOMAIN savedByWeek :
                        savedByWeek[x].timestamp > savedByWeek[w].timestamp}) < retainedWeeks}

\* C22: after any sequence of saves the store holds at most one record per
\* weekId, getRecommendationByWeek(w) is the record most recently saved for w
\* as long as that week is retained (and null otherwise), and
\* getLatestRecommendation is the record most recently saved.
C22_StoreKeyedByWeek ==
    /\ \A i, j \in DOMAIN savedFile :
          savedFile[i].weekId = savedFile[j].weekId => i = j
    /\ Len(savedFile) <= retainedWeeks
    /\ LET retained == RetainedWeekIds
       IN \A w \in 1..MaxWeeks :
             getRecommendationByWeek(savedFile, w) =
                 IF w \in retained THEN savedByWeek[w] ELSE Null
    /\ getLatestRecommendation(savedFile) =
          IF clock = 0 THEN Null
          ELSE savedByWeek[CHOOSE w \in DOMAIN savedByWeek : savedByWeek[w].timestamp = clock]

\* more weeks were saved than are retained, a week was saved twice and its
\* second record is the one returned, and the oldest week is gone
C22_Witness ==
    /\ Cardinality(DOMAIN savedByWeek) > retainedWeeks
    /\ resaves > 0
    /\ Len(savedFile) = retainedWeeks
    /\ \E w \in DOMAIN savedByWeek : getRecommendationByWeek(savedFile, w) = Null
    /\ \E w \in DOMAIN savedByWeek :
          /\ savedByWeek[w].timestamp > w
          /\ getRecommendationByWeek(savedFile, w) = savedByWeek[w]
          /\ getLatestRecommendation(savedFile) # savedByWeek[w]

-----------------------------------------------------------------------------
(* Properties of the watchlist, checked under SpecWatch                    *)

\* position in the passed list of the stock with this code
PassedIndex(code) == CHOOSE i \in DOMAIN scoringResult.passed : scoringResult.passed[i].nseCode = code

\* C23: the watchlist of a recommendation holds only gate-passing stocks
\* with compositeScore >= 50 that are not in the allocation, at most 10 of
\* them, in the order of the passed list (descending composite score).
C23_WatchlistSelection ==
    (pc = "done" /\ caller = "generateRecommendation") =>
        LET watchlist == recommendation.watchlist
            passed == scoringResult.passed
            allocatedCodes == {st.nseCode : st \in Range(recommendation.allocation.stocks)}
        IN /\ Len(watchlist) <= 10
           /\ \A i \in DOMAIN watchlist :
                 /\ \E j \in DOMAIN passed : passed[j].nseCode = watchlist[i].code
                 /\ passed[PassedIndex(watchlist[i].code)].compositeScore = watchlist[i].compositeScore
                 /\ checkQualityGates(stocks[watchlist[i].code]).passed
                 /\ watchlist[i].compositeScore >= 50
                 /\ watchlist[i].code \notin allocatedCodes
           /\ \A i \in 1..(Len(watchlist) - 1) :
                 /\ PassedIndex(watchlist[i].code) < PassedIndex(watchlist[i + 1].code)
                 /\ watchlist[i].compositeScore >= watchlist[i + 1].compositeScore

\* a run has returned a full watchlist while more than 10 gate-passing stocks
\* with a composite score of 50 or more are outside the allocation, next to
\* a gate-passing stock below 50 and a stock that failed the gates
C23_Witness ==
    /\ pc = "done"
    /\ caller = "generateRecommendation"
    /\ Len(recommendation.watchlist) = 10
    /\ Len(recommendation.allocation.stocks) = 20
    /\ Cardinality({j \in DOMAIN scoringResult.passed :
            /\ scoringResult.passed[j].compositeScore >= 50
            /\ \A st \in Range(recommendation.allocation.stocks) :
                  st.nseCode # scoringResult.passed[j].nseCode}) > 10
    /\ \E j \in DOMAIN scoringResult.passed : scoringResult.passed[j].compositeScore < 50
    /\ Len(scoringResult.failed) > 0
    /\ recommendation.watchlist[1].compositeScore > recommendation.watchlist[10].compositeScore

-----------------------------------------------------------------------------
(* Properties of the candidate pool, checked under SpecPool                *)

\* C24: for any scoredStocks list, in any order, the candidate pool holds at
\* most 20 stocks, all of them passed and with compositeScore >= 45, and no
\* eligible stock outside the pool has a higher compositeScore than a stock
\* inside it.
C24_PoolIsTopTwenty ==
    pc = "cpw_weights" =>
        LET pooled == {eligibleStocks[i].nseCode : i \in DOMAIN eligibleStocks}
        IN /\ Len(eligibleStocks) <= 20
           /\ \A i \in DOMAIN eligibleStocks :
                 /\ eligibleStocks[i].passed
                 /\ eligibleStocks[i].compositeScore >= 45
                 /\ \E j \in DOMAIN scoredStocks : scoredStocks[j].nseCode = eligibleStocks[i].nseCode
           /\ \A j \in DOMAIN scoredStocks :
                 (IsEligible(scoredStocks[j]) /\ scoredStocks[j].nseCode \notin pooled) =>
                     \A i \in DOMAIN eligibleStocks :
                         scoredStocks[j].compositeScore <= eligibleStocks[i].compositeScore

-----------------------------------------------------------------------------
(* Properties of the sector loop, checked under SpecSizing                 *)

\* the loop has just been left
SectorLoopLeft == pc = "cpw_top5"

\* the cap step leaves no weight above the raw weight, and no step of the
\* sector loop or of the top-5 limit raises the working weight of a stock
NoWeightIncreased ==
    /\ [](pc = "cpw_sector" =>
            \A i \in DOMAIN eligibleStocks :
                eligibleStocks[i].cappedWeight <= eligibleStocks[i].rawWeight)
    /\ [][(pc \in {"cpw_sector", "cpw_top5"}) =>
            (\A i \in DOMAIN eligibleStocks : \A j \in DOMAIN eligibleStocks' :
                eligibleStocks'[j].nseCode = eligibleStocks[i].nseCode =>
                    eligibleStocks'[j].cappedWeight <= eligibleStocks[i].cappedWeight)]_vars

-----------------------------------------------------------------------------
(* Properties of the rounding adjustment, checked under SpecResidual       *)

\* the surviving stocks with their rounded weights, before the adjustment
RoundedSurvivors == Normalized(FilterSeq(eligibleStocks, {s \in Range(eligibleStocks) : ~s.excluded}))

\* C26: in the normalization step a residual between targetEquityAllocation
\* and the sum of the rounded weights is added to the stock with the largest
\* weight among the surviving stocks at that point.
C26_ResidualToLargest ==
    pc = "cpw_return" =>
        \A i \in DOMAIN includedStocks :
            includedStocks[i].weight # RoundedSurvivors[i].weight =>
                \A j \in DOMAIN includedStocks :
                    RoundedSurvivors[j].weight <= RoundedSurvivors[i].weight

-----------------------------------------------------------------------------
(* Properties of the fundamental grade, checked under SpecLayers           *)

\* C27: the letter grade returned by calculateFundamentalScore is the band
\* of the score returned in the same result: A+ from 85, A from 75, B+ from
\* 65, B from 55, C+ from 45, C from 35, D below 35.
C27_GradeIsBandOfScore ==
    scores # Null =>
        LET score == scores.fundamental.score
            grade == scores.fundamental.grade
        IN /\ grade = "A+" <=> score >= 85
           /\ grade = "A" <=> score \in 75..84
           /\ grade = "B+" <=> score \in 65..74
           /\ grade = "B" <=> score \in 55..64
           /\ grade = "C+" <=> score \in 45..54
           /\ grade = "C" <=> score \in 35..44
           /\ grade = "D" <=> score < 35

-----------------------------------------------------------------------------
(* Frame of scoreAllStocks and calculatePortfolioWeights, checked under Spec *)

-----------------------------------------------------------------------------
(* Minimum weight of the allocation, checked under SpecMinimum *)

\* the survivors of pruning, in the order of the working array
Survivors ==
    FilterSeq(eligibleStocks, {s \in Range(eligibleStocks) : ~s.excluded})

\* C29: with the default configuration every stock of the returned allocation
\* has a final weight of at least minStockWeight.  After normalization and
\* the rounding adjustment: the survivors' capped weights sum to at most the
\* target, up to the rounding of the working weights (half a unit of the
\* last place per stock), so the normalizer is at least 1 up to that
\* rounding; no survivor's normalized weight lies below its capped weight by
\* more than the rounding to one decimal; and every survivor, the adjusted
\* first one included, weighs at least minStockWeight; so does every stock
\* of the value returned.
C29_MinimumWeightKept ==
    /\ (pc = "cpw_return") =>
          /\ 2 * SumField(Survivors, "cappedWeight")
                <= 2 * targetEquityAllocation * Milli + Len(Survivors)
          /\ \A i \in DOMAIN Survivors :
                2 * (Milli \div Tenth) * Normalized(Survivors)[i].weight + (Milli \div Tenth)
                    >= 2 * Survivors[i].cappedWeight
          /\ \A i \in DOMAIN includedStocks :
                includedStocks[i].weight >= minStockWeight * Tenth
    /\ (portfolioResult # Null) =>
          \A i \in DOMAIN portfolioResult.stocks :
              portfolioResult.stocks[i].weight >= minStockWeight * Tenth

\* a returned allocation in which a stock was pruned, a survivor sits within
\* half a point of the minimum, and the first stock was adjusted downwards
\* by the rounding residual
C29_Witness ==
    /\ pc = "done"
    /\ Len(includedStocks) > 0
    /\ Len(portfolioResult.stocks) = Len(includedStocks)
    /\ Len(eligibleStocks) > Len(includedStocks)
    /\ \E i \in DOMAIN includedStocks :
          includedStocks[i].weight * 2 <= (2 * minStockWeight + 1) * Tenth
    /\ includedStocks[1].weight < Normalized(Survivors)[1].weight

-----------------------------------------------------------------------------
(* Top picks and risk alerts of the return-forecast variant, under SpecAI *)

\* C30: in the recommendation built by the return-forecast variant of
\* generateRecommendation no stock code appears both in topPicks and in
\* returnForecast.riskAlerts; the risk alerts are the allocated stocks with
\* the 10 lowest prediction scores (all of them when 10 or fewer are
\* allocated), so topPicks is empty whenever the allocation holds 10 or
\* fewer stocks.
C30_TopPicksAvoidRiskAlerts ==
    (pc = "done" /\ caller = "generateRecommendationAI") =>
        LET picks == recommendation.topPicks
            alerts == recommendation.returnForecast.riskAlerts
            allocated == portfolioResult.stocks
            alertCodes == {alerts[i].code : i \in DOMAIN alerts}
        IN /\ \A i \in DOMAIN picks : picks[i].code \notin alertCodes
           /\ Len(alerts) = Min(10, Len(allocated))
           /\ alertCodes \subseteq {allocated[i].nseCode : i \in DOMAIN allocated}
           /\ \A i \in DOMAIN allocated :
                 allocated[i].nseCode \notin alertCodes =>
                     \A j \in DOMAIN alerts :
                         alerts[j].predictionScore <= StockForecast(allocated[i], stocks).predictionScore
           /\ (Len(recommendation.allocation.stocks) <= 10) => (picks = <<>>)

\* a recommendation over more than 10 allocated stocks: ten risk alerts, and
\* a top pick left after the filter took picks out
C30_Witness ==
    /\ pc = "done"
    /\ caller = "generateRecommendationAI"
    /\ Len(recommendation.allocation.stocks) > 10
    /\ Len(recommendation.returnForecast.riskAlerts) = 10
    /\ Len(recommendation.topPicks) > 0
    /\ Len(recommendation.topPicks) < Len(topPicks)

====
